---------------------------- MODULE Spec2Model ----------------------------
(***************************************************************************)
(* ArticleOcrService (src/unnamed/part_000, lines 241-1082): the OCR       *)
(* worker pool, processDocument with its retry loop, and the text pipeline *)
(* (normalise, correct synonyms, recognise fields, structure, post-process,*)
(* aggregate confidence).  PdfArticleExtractorService (lines 29-240): the  *)
(* extraction of the pages of a PDF through the pdf2json parser.           *)
(*                                                                         *)
(* Spec          processDocument called by clients whose calls overlap;    *)
(*               the engine resolves with a sample text, resolves without  *)
(*               text, or rejects.                                         *)
(* SpecShutdown  one client and onModuleDestroy, at any moment of a call.  *)
(* SpecDoc       one document after another, over every text of at most    *)
(*               MaxLen words of the vocabulary.                           *)
(* SpecUnit      the private functions called one by one, character by     *)
(*               character, as a unit test calls them.                     *)
(* SpecPdf       extractStructuredData, one call after another, and the    *)
(*               events of the parser.                                     *)
(*                                                                         *)
(* JavaScript runs each stretch of code between two awaits atomically, so  *)
(* an action is one such stretch.                                          *)
(***************************************************************************)
EXTENDS Integers, Sequences, FiniteSets, TLC

\* ------------------------------------------------------------------ bounds
NumCallers == 2      \* overlapping callers of processDocument
MaxCalls == 2        \* processDocument calls in one run
MaxDestroys == 2     \* onModuleDestroy calls in one run of SpecShutdown
MaxLen == 3          \* words in an OCR text of SpecDoc
MaxDigits == 7       \* characters of a quantity handed to validateFieldValue
MaxResults == 3      \* recognition results handed to calculateConfidence
MaxChars == 5        \* characters of a text handed to preprocessText
MaxPieces == 3       \* words and separators of a text handed to correctFieldNames
MaxBytes == 5        \* bytes of a buffer handed to extractStructuredData
MaxPages == 2        \* pages of the data the PDF parser delivers
MaxExtractions == 3  \* extractStructuredData calls on the shared parser
MaxStock == 2        \* quantityInStock of the article before the saves
MaxSaves == 3        \* save calls of ExpenseArticleInvoiceEntryService

\* ------------------------------------------------------- program constants
MAX_WORKERS == 3     \* private readonly MAX_WORKERS = 3
retries == 2         \* extractTextWithRetry(imagePath, retries = 2)

Callers == 1..NumCallers
WorkerIds == 1..(MaxCalls * retries)

\* ------------------------------------------------------------- OCR texts
(* A string is a sequence of words separated by single blanks; ":" is a    *)
(* word of its own.  SP at the head or the tail of a value marks white     *)
(* space a replace() has left there.  The vocabulary holds the labels of   *)
(* the catalog in the spelling OCR delivers them, a product name, a        *)
(* reference in both letter cases, a valid and a zero price, a currency.   *)
SP == " "
Vocabulary ==
  {"title", "titre", "prix", "Référence", "quantité", "Notes", ":", "Clavier",
   "PROD-2024-789", "prod-2024-789", "89.99", "0.00", "EUR"}
WhiteSpace == {" ", "\n", "\r", "\t", "\f"}   \* \s
FieldNames ==
  <<"title", "description", "reference", "quantity", "price", "notes", "designation">>
Sentinel == <<"Titre non détecté">>

Min(S) == CHOOSE x \in S : \A y \in S : x <= y
Range(q) == {q[k] : k \in 1..Len(q)}
\* the elements of a sequence that are in a set, in their order
Keep(q, S) == SelectSeq(q, LAMBDA x : x \in S)
Toks(v) == Keep(v, Range(v) \ {SP})

\* String.length of a word
TokLen(t) ==
  CASE t \in {"PROD-2024-789", "prod-2024-789"} -> 13
    [] t = "Titre non détecté" -> 17
    [] t = "designation" -> 11
    [] t \in {"Référence", "reference"} -> 9
    [] t = "quantité" -> 8
    [] t = "Clavier" -> 7
    [] t \in {"title", "titre", "Notes", "price", "89.99"} -> 5
    [] t \in {"prix", "0.00"} -> 4
    [] t \in {"EUR", ".99", ".00"} -> 3
    [] t = "89" -> 2
    [] OTHER -> 1
RECURSIVE StrLen(_)
StrLen(v) ==
  IF v = <<>> THEN 0
  ELSE TokLen(Head(v)) + (IF Len(v) > 1 THEN 1 ELSE 0) + StrLen(Tail(v))

\* String.toLowerCase / toUpperCase of a word
Lower(t) ==
  CASE t = "Clavier" -> "clavier" [] t = "EUR" -> "eur" [] t = "Notes" -> "notes"
    [] t = "Référence" -> "référence" [] t = "PROD-2024-789" -> "prod-2024-789"
    [] t = "P" -> "p" [] t = "R" -> "r"
    [] OTHER -> t
Upper(t) == IF t = "prod-2024-789" THEN "PROD-2024-789" ELSE t

(* The alternatives of the source's alternations (labels, stop keywords,   *)
(* synonyms, currencies) that a word starts with, letter case ignored.  In *)
(* this vocabulary a keyword occurs in a word only at its start.           *)
StartsWith(t) ==
  CASE t = "title" -> {"title"} [] t = "titre" -> {"titre"} [] t = "prix" -> {"prix"}
    [] t = "price" -> {"price"} [] t = "designation" -> {"designation"}
    [] t = "Référence" -> {"référence"} [] t = "reference" -> {"reference", "ref"}
    [] t = "quantité" -> {"quantité", "quantit"} [] t = "Notes" -> {"notes", "note", "no"}
    [] t = "EUR" -> {"eur"} [] t = ":" -> {":"} [] t = "Titre non détecté" -> {"titre"}
    [] OTHER -> {}
Starts(t, alternatives) == StartsWith(t) \cap alternatives # {}
(* The keywords w for which \bw\b matches the word when blanks surround    *)
(* it.  The accented last letter of "quantité" is no word character, so no *)
(* \b follows it and \bquantité\b does not match.                          *)
Words(t) ==
  IF t \in {"title", "titre", "prix", "price", "designation", "reference", "Référence", "Notes"}
  THEN {Lower(t)} ELSE {}

\* PROD-\d{4}-\d{3,} with the i flag; \d+[.,]\d{2}; the digits a word starts with
IsReference(t) == t \in {"PROD-2024-789", "prod-2024-789"}
IsDecimal(t) == t \in {"89.99", "0.00"}
IsNumber(t) == t \in {"89", "0"}
Digits(t) == CASE t = "89.99" -> "89" [] t = "0.00" -> "0" [] IsNumber(t) -> t [] OTHER -> ""
AfterDigits(t) == CASE t = "89.99" -> ".99" [] t = "0.00" -> ".00" [] OTHER -> ""
\* parseInt / parseFloat of a number, in hundredths
Hundredths(t) == CASE t \in {"89.99"} -> 8999 [] t = "89" -> 8900 [] OTHER -> 0

\* ------------------------------------------------- the catalog (fieldConfigs)
synonyms ==
  [title |-> <<"titre", "nom", "name", "article", "produit">>,
   description |-> <<"description", "désignation", "designation", "produit", "article",
                     "détails", "desc">>,
   reference |-> <<"référence", "ref", "code", "id", "numéro", "n°", "no", "facture">>,
   quantity |-> <<"quantité", "qte", "qty", "stock", "disponible", "disponibilité">>,
   price |-> <<"prix", "unitaire", "montant", "tarif", "coût", "cout">>,
   notes |-> <<"note", "remarque", "commentaire">>,
   designation |-> <<"désignation", "description", "titre", "article", "produit">>]
\* weight in hundredths, 0 where the catalog gives none
weight ==
  [title |-> 20, description |-> 25, reference |-> 0, quantity |-> 15, price |-> 20,
   notes |-> 10, designation |-> 0]
required == [f \in Range(FieldNames) |-> f \in {"title", "description"}]
\* the priorities of a field's patterns, in the order of the literal
InitialPatterns == [f \in Range(FieldNames) |-> IF f = "notes" THEN <<1>> ELSE <<1, 2>>]
\* pattern.example.split(':')[0].trim().toLowerCase(), by field and priority
exampleKey ==
  [title |-> <<(<<"titre">>), <<"gaming", "mouse", "rgb">> >>,
   description |-> <<(<<"description">>), <<"clavier", "gaming", "mécanique", "rgb">> >>,
   reference |-> <<(<<"reference">>), <<"prod-2624-789">> >>,
   quantity |-> <<(<<"quantité">>), <<"100", "unités">> >>,
   price |-> <<(<<"prix">>), <<"89.99", "eur">> >>,
   notes |-> << <<"note">> >>,
   designation |-> <<(<<"description">>), <<"clavier", "gaming", "mécanique">> >>]

\* the alternations of the catalog's regular expressions
TitleLabels == {"title", "titre", "nom", "name", "article", "produit"}
TitleStops ==
  {"=", ":", "\n", "reference", "référence", "ref", "description", "désignation",
   "designation", "price", "prix", "quantity", "quantité", "notes", "note"}
DescriptionStops ==
  {"référence", "ref", "quantité", "qte", "prix", "price", "unitaire", "statut"}
PriceLabels == {"prix", "unitaire", "montant", "tarif", "coût", "cout"}
Currencies == {"€", "eur", "euros", "euro"}
DesignationStops == {"quantité", "quantite", "qte", "prix", "price", "unitaire", "statut"}

\* --------------------------------------------------------------- matching
(* A match is the span s..e of the words of m[0] in the string, the        *)
(* capture group, and whether m[0] ends inside word e, after its digits.   *)
NoMatch == [s |-> 0, e |-> 0, cap |-> <<>>, partial |-> FALSE]
Match(s, e, cap) == [s |-> s, e |-> e, cap |-> cap, partial |-> FALSE]

(* A lazy group (...+?)(?=\s*(?:stops)|$) starting at word j: it ends at   *)
(* the first word that a stop keyword or the end follows; without colonOk  *)
(* the group is [^:]+ and fails on a colon.  0 when there is no match.     *)
Lazy(v, j, stops, colonOk) ==
  LET ks == {k \in j..Len(v) : /\ (k = Len(v) \/ Starts(v[k + 1], stops))
                               /\ (colonOk \/ \A x \in j..k : v[x] # ":")}
  IN IF ks = {} THEN 0 ELSE Min(ks)

(* label \s* :? \s* (group) at the label in word i.  The colon after the   *)
(* label is optional (colonOpt) or required; a group that admits colons    *)
(* (colonInCap) can start with the colon itself, and one that does not can *)
(* shrink to the blank before a stop keyword.                              *)
LabelAt(v, i, stops, colonOpt, colonInCap) ==
  LET n == Len(v)
      \* k1, k2: where the group ends when it starts right after the label, or one later
      Group(k1, k2) ==
        IF i + 1 <= n /\ v[i + 1] = ":"
        THEN IF k2 # 0 THEN Match(i, k2, SubSeq(v, i + 2, k2))
             ELSE IF ~colonInCap /\ i + 2 <= n /\ Starts(v[i + 2], stops)
                  THEN Match(i, i + 1, <<>>)
             ELSE IF colonOpt /\ colonInCap /\ k1 # 0 THEN Match(i, k1, SubSeq(v, i + 1, k1))
             ELSE NoMatch
        ELSE IF colonOpt /\ k1 # 0 THEN Match(i, k1, SubSeq(v, i + 1, k1))
             ELSE NoMatch
  IN Group(Lazy(v, i + 1, stops, colonInCap), Lazy(v, i + 2, stops, colonInCap))
LabelCapture(v, labels, stops, colonOpt, colonInCap) ==
  LET First(is) == IF is = {} THEN NoMatch ELSE LabelAt(v, Min(is), stops, colonOpt, colonInCap)
  IN First({i \in 1..Len(v) : /\ Starts(v[i], labels)
                              /\ LabelAt(v, i, stops, colonOpt, colonInCap).s # 0})

\* label \s* [:=\-]? \s* followed by one of the wanted words: <<label, word>>
ValueAfter(v, i) == IF i + 1 <= Len(v) /\ v[i + 1] = ":" THEN i + 2 ELSE i + 1
LabelValue(v, labels, wanted) ==
  LET is == {i \in 1..Len(v) : Starts(v[i], labels) /\ ValueAfter(v, i) \in wanted}
  IN IF is = {} THEN <<0, 0>> ELSE <<Min(is), ValueAfter(v, Min(is))>>

\* ^(?!.*(?:keywords))([^\n]+?)(?=\s*(?:stops)|$): the whole string, or nothing
WholeUnless(v, keywords) ==
  IF v = <<>> \/ \E k \in 1..Len(v) : Starts(v[k], keywords) THEN NoMatch
  ELSE Match(1, Len(v), v)

titlePattern2(v) ==
  LET first == IF v # <<>> /\ v[1] = SP THEN 2 ELSE 1
      k == Lazy(v, first, TitleStops, FALSE)
  IN IF v = <<>> THEN NoMatch
     ELSE IF first = 2 /\ Len(v) >= 2 /\ Starts(v[2], TitleStops) THEN Match(1, 1, <<>>)
     ELSE IF k = 0 THEN NoMatch ELSE Match(1, k, SubSeq(v, 1, k))
descriptionPattern1(v) ==
  LabelCapture(v, {"description", "désignation", "designation", "produit", "article",
                   "détails", "desc"},
               DescriptionStops, TRUE, TRUE)
referencePattern1(v) ==
  LET r == LabelValue(v, {"reference", "référence", "ref", "facture"},
                      {k \in 1..Len(v) : IsReference(v[k])})
  IN IF r[1] = 0 THEN NoMatch ELSE Match(r[1], r[2], <<v[r[2]]>>)
referencePattern2(v) ==
  LET is == {i \in 1..Len(v) : IsReference(v[i])}
  IN IF is = {} THEN NoMatch ELSE Match(Min(is), Min(is), <<v[Min(is)]>>)
quantityPattern1(v) ==
  LET r == LabelValue(v, {"quantité", "qte", "qty", "stock", "disponible", "disponibilité"},
                      {k \in 1..Len(v) : Digits(v[k]) # ""})
  IN IF r[1] = 0 THEN NoMatch
     ELSE [s |-> r[1], e |-> r[2], cap |-> <<Digits(v[r[2]])>>,
           partial |-> AfterDigits(v[r[2]]) # ""]
quantityPattern2(v) ==
  LET units == {"unités", "unité", "units", "unit", "pcs", "pc", "pièces", "pièce",
                "pieces", "piece"}
      is == {i \in 1..(Len(v) - 1) : IsNumber(v[i]) /\ Starts(v[i + 1], units)}
  IN IF is = {} THEN NoMatch ELSE Match(Min(is), Min(is) + 1, <<v[Min(is)]>>)
\* the labelled price: the catalog's pattern 1, and the fallback with its own labels
LabelledPrice(v, labels) ==
  LET r == LabelValue(v, labels, {k \in 1..Len(v) : IsDecimal(v[k])})
      e == IF r[2] + 1 <= Len(v) /\ Starts(v[r[2] + 1], Currencies) THEN r[2] + 1 ELSE r[2]
  IN IF r[1] = 0 THEN NoMatch ELSE Match(r[1], e, <<v[r[2]]>>)
pricePattern2(v) ==
  LET is == {i \in 1..(Len(v) - 1) : IsDecimal(v[i]) /\ Starts(v[i + 1], Currencies)}
  IN IF is = {} THEN NoMatch ELSE Match(Min(is), Min(is) + 1, <<v[Min(is)]>>)
\* "note" matches inside "Notes": the group starts with the letter left over
notesPattern1(v) ==
  LET is == {i \in 1..Len(v) : Starts(v[i], {"note", "remarque", "commentaire"})}
  IN IF is = {} THEN NoMatch
     ELSE Match(Min(is), Len(v), <<"s">> \o SubSeq(v, Min(is) + 1, Len(v)))
designationPattern1(v) ==
  LabelCapture(v, {"titre", "description", "designation", "désignation"},
               DesignationStops, TRUE, TRUE)

\* pattern.regex.exec(v) for the pattern of field f with priority p
exec(f, p, v) ==
  CASE f = "title" -> IF p = 1 THEN LabelCapture(v, TitleLabels, TitleStops, TRUE, TRUE)
                    ELSE titlePattern2(v)
    [] f = "description" -> IF p = 1 THEN descriptionPattern1(v)
                          ELSE WholeUnless(v, {"reference"} \cup DescriptionStops)
    [] f = "reference" -> IF p = 1 THEN referencePattern1(v) ELSE referencePattern2(v)
    [] f = "quantity" -> IF p = 1 THEN quantityPattern1(v) ELSE quantityPattern2(v)
    [] f = "price" -> IF p = 1 THEN LabelledPrice(v, PriceLabels) ELSE pricePattern2(v)
    [] f = "notes" -> notesPattern1(v)
    [] OTHER -> IF p = 1 THEN designationPattern1(v)
               ELSE WholeUnless(v, {"reference", "référence", "ref"} \cup DesignationStops)
\* m[0] as words
matchedText(v, m) ==
  LET seg == SubSeq(v, m.s, m.e)
  IN Toks(IF m.partial THEN SubSeq(seg, 1, Len(seg) - 1) \o <<Digits(seg[Len(seg)])>> ELSE seg)

\* ---------------------------------------------------------------- cleaning
(* value.replace(regex, '') of the match s..e.  partial: the rest of word  *)
(* e stays; lead: the match took the white space before it.  A removal at  *)
(* the head or the tail of the string leaves the neighbouring white space. *)
RemoveSpan(v, s, e, partial, lead) ==
  LET left == Toks(SubSeq(v, 1, s - 1))
      right == (IF partial THEN <<AfterDigits(v[e])>> ELSE <<>>)
                 \o Toks(SubSeq(v, e + 1, Len(v)))
      head == \/ (v[1] = SP /\ s > 1)
              \/ (left = <<>> /\ right # <<>> /\ ~partial /\ Toks(SubSeq(v, s, e)) # <<>>)
      tail == \/ (v[Len(v)] = SP /\ e < Len(v))
              \/ (right = <<>> /\ left # <<>> /\ ~lead)
  IN (IF head THEN <<SP>> ELSE <<>>) \o left \o right \o (IF tail THEN <<SP>> ELSE <<>>)
RemoveMatch(v, m, lead) == IF m.s = 0 THEN v ELSE RemoveSpan(v, m.s, m.e, m.partial, lead)
\* .replace(/PROD-\d{4}-\d{3,}/i, '')
RemoveReference(v) == RemoveMatch(v, referencePattern2(v), FALSE)
\* .replace(/designation\s*:/i, '')
RemoveDesignationLabel(v) ==
  LET is == {i \in 1..(Len(v) - 1) : Starts(v[i], {"designation"}) /\ v[i + 1] = ":"}
  IN IF is = {} THEN v ELSE RemoveSpan(v, Min(is), Min(is) + 1, FALSE, FALSE)
\* the replaces of one (?:^|\s)keyword\s*[:=\-]?\s*[^\n]* per keyword cut the string at
\* the first of the words `is' that start with a keyword
RemoveFrom(v, is) == IF is = {} THEN v ELSE RemoveSpan(v, Min(is), Len(v), FALSE, TRUE)
\* .replace(/[:=\-]\s*$/, '').replace(/\s{2,}/g, ' ').trim()
StripTrailing(v) ==
  LET t == Toks(v)
  IN IF t # <<>> /\ t[Len(t)] = ":" THEN SubSeq(t, 1, Len(t) - 1) ELSE t

\* fieldConfig.patterns.forEach(pattern => value = value.replace(pattern.regex, ''));
\* no pattern matches the empty string
RECURSIVE RemovePatterns(_, _, _, _)
RemovePatterns(v, f, order, k) ==
  IF k > Len(order) \/ v = <<>> THEN v
  ELSE RemovePatterns(RemoveMatch(v, exec(f, order[k], v), f = "price" /\ order[k] = 2),
                      f, order, k + 1)
\* fieldConfig.synonyms.forEach(synonym => value = value.replace(regex, ''))
RemoveSynonyms(v, f) == RemoveFrom(v, {i \in 1..Len(v) : Starts(v[i], Range(synonyms[f]))})
\* excludeFields.forEach(...), from the k-th field on
RECURSIVE RemoveFields(_, _, _, _)
RemoveFields(patterns, v, excludeFields, k) ==
  IF k > Len(excludeFields) \/ v = <<>> THEN v
  ELSE RemoveFields(patterns,
                    RemoveSynonyms(RemovePatterns(v, excludeFields[k],
                                                  patterns[excludeFields[k]], 1),
                                   excludeFields[k]),
                    excludeFields, k + 1)
cleanField(patterns, value, excludeFields) ==
  LET Or(cleaned) == IF cleaned # <<>> THEN cleaned ELSE value
  IN IF value = <<>> THEN value
     ELSE Or(StripTrailing(RemoveFields(patterns, RemoveDesignationLabel(RemoveReference(value)),
                                        excludeFields, 1)))

\* .replace(/^s\s*:\s*/i, '') and .replace(/^notes?\s*:\s*/i, '')
StripLabel(v, label) ==
  IF Len(v) >= 2 /\ Lower(v[1]) = label /\ v[2] = ":" THEN SubSeq(v, 3, Len(v)) ELSE v
cleanNotes(value) == StripTrailing(StripLabel(StripLabel(value, "s"), "notes"))

(* \bname\b | \bfirst synonym | synonym | ... | last synonym\b : the regex *)
(* cleanDesignation builds by joining the synonyms with "|"                *)
NameOrSynonym(f, t) ==
  \/ f \in Words(t)
  \/ Starts(t, {synonyms[f][k] : k \in 1..(Len(synonyms[f]) - 1)})
  \/ synonyms[f][Len(synonyms[f])] \in Words(t)
RECURSIVE RemoveOtherFields(_, _)
RemoveOtherFields(v, k) ==
  IF k > Len(FieldNames) \/ v = <<>> THEN v
  ELSE RemoveOtherFields(
         IF FieldNames[k] = "designation" THEN v
         ELSE RemoveFrom(v, {i \in 1..Len(v) : NameOrSynonym(FieldNames[k], v[i])}),
         k + 1)
cleanDesignation(value) ==
  IF value = <<>> THEN value ELSE StripTrailing(RemoveOtherFields(RemoveReference(value), 1))
cleanDescription(value) ==
  IF value = <<>> THEN value ELSE StripTrailing(RemoveDesignationLabel(RemoveReference(value)))

\* pattern.valueProcessor(value), or value.trim() where the pattern has none
valueProcessor(patterns, f, p, cap) ==
  CASE f = "title" ->
         IF p = 1 /\ cap # <<>> /\ Starts(cap[1], TitleLabels)
         THEN Toks(SubSeq(cap, ValueAfter(cap, 1), Len(cap)))
         ELSE Toks(cap)
    [] f = "description" -> cleanField(patterns, cap, <<"reference", "price", "quantity">>)
    [] f = "reference" -> IF p = 1 THEN <<Upper(cap[1])>> ELSE Toks(cap)
    [] f = "notes" -> cleanNotes(cap)
    [] f = "designation" -> cleanDesignation(cap)
    [] OTHER -> cap

\* ------------------------------------------------------- the text pipeline
(* The raw text is a sequence of symbols: the characters of WhiteSpace,    *)
(* and words or other characters.  "" marks a symbol a replace() removes.  *)
\* .replace(/\s+/g, ' '): the first symbol of a run of white space becomes a blank
collapseMutant(text) ==
  LET marked == [k \in 1..Len(text) |->
                   IF text[k] \notin WhiteSpace THEN text[k]
                   ELSE IF (k = 1 \/ text[k - 1] \notin WhiteSpace)
                             /\ k < Len(text) /\ text[k + 1] \in WhiteSpace THEN ""
                   ELSE " "]
  IN Keep(marked, Range(marked) \ {""})
collapse(text) ==
  LET marked == [k \in 1..Len(text) |->
                   IF text[k] \notin WhiteSpace THEN text[k]
                   ELSE IF k > 1 /\ text[k - 1] \in WhiteSpace THEN ""
                   ELSE " "]
  IN Keep(marked, Range(marked) \ {""})
\* String.prototype.trim, .replace(/^\s+|\s+$/g, ''): from the first to the last symbol
\* that is no white space
trim(t) ==
  LET ks == {k \in 1..Len(t) : t[k] \notin WhiteSpace}
  IN IF ks = {} THEN <<>> ELSE SubSeq(t, Min(ks), CHOOSE k \in ks : \A j \in ks : j <= k)
preprocessText(text) ==
  LET \* .replace(/(\r\n|\n|\r)/gm, '\n')
      marked == [k \in 1..Len(text) |->
                   IF text[k] # "\r" THEN text[k]
                   ELSE IF k < Len(text) /\ text[k + 1] = "\n" THEN ""
                   ELSE "\n"]
  IN trim(collapse(Keep(marked, Range(marked) \ {""})))

\* correctionMap.get(synonym): the name of the last field that lists the synonym
AllSynonyms == UNION {Range(synonyms[f]) : f \in Range(FieldNames)}
correctionMap(synonym) ==
  LET ks == {k \in 1..Len(FieldNames) : synonym \in Range(synonyms[FieldNames[k]])}
  IN FieldNames[CHOOSE k \in ks : \A j \in ks : j <= k]
IsSynonym(t) == Words(t) \cap AllSynonyms # {}
RECURSIVE CorrectionLog(_, _)
CorrectionLog(text, k) ==
  IF k = 0 THEN <<>>
  ELSE (IF IsSynonym(text[k])
        THEN <<[original |-> text[k],
                corrected |-> correctionMap(CHOOSE w \in Words(text[k]) \cap AllSynonyms : TRUE)]>>
        ELSE <<>>) \o CorrectionLog(text, k - 1)
correctWordsMutant(text) == [correctedText |-> text, corrections |-> <<>>]
\* correctFieldNames on a text taken word by word: a word is a synonym, or stays
correctWords(text) ==
  [correctedText |->
     [k \in 1..Len(text) |->
        IF IsSynonym(text[k])
        THEN correctionMap(CHOOSE w \in Words(text[k]) \cap AllSynonyms : TRUE)
        ELSE text[k]],
   corrections |-> CorrectionLog(text, Len(text))]

(* correctFieldNames character by character.  A text is a sequence of      *)
(* characters, and Chars spells the words the texts of SpecUnit are made   *)
(* of; any other word is one symbol that no character of a text equals.    *)
Chars(w) ==
  CASE w = "titre" -> <<"t", "i", "t", "r", "e">>
    [] w = "title" -> <<"t", "i", "t", "l", "e">>
    [] w = "Prix" -> <<"P", "r", "i", "x">>
    [] w = "prix" -> <<"p", "r", "i", "x">>
    [] w = "price" -> <<"p", "r", "i", "c", "e">>
    [] w = "ref" -> <<"r", "e", "f">>
    [] w = "reference" -> <<"r", "e", "f", "e", "r", "e", "n", "c", "e">>
    [] w = "quantité" -> <<"q", "u", "a", "n", "t", "i", "t", "é">>
    [] w = "quantity" -> <<"q", "u", "a", "n", "t", "i", "t", "y">>
    [] w = "designation" -> <<"d", "e", "s", "i", "g", "n", "a", "t", "i", "o", "n">>
    [] w \in {"s", " ", ":"} -> <<w>>
    [] OTHER -> <<w>>
(* new RegExp(`\\b${synonym}\\b`, 'gi') matches at index i (from 1).  \b   *)
(* lies between a character of \w, which has no accented letter, and a     *)
(* character that is none or an end of the text.                           *)
wordMatch(text, synonym, i) ==
  LET n == Len(Chars(synonym))
      W(k) == k >= 1 /\ k <= Len(text) /\ text[k] \notin {" ", ":", "é"}
  IN /\ i + n - 1 <= Len(text)
     /\ \A k \in 1..n : Lower(text[i + k - 1]) = Chars(synonym)[k]
     /\ W(i - 1) # W(i)
     /\ W(i + n - 1) # W(i + n)
\* the keys of correctionMap in the order of their first insertion
correctionKeys ==
  LET Flat[k \in 0..Len(FieldNames)] ==
        IF k = 0 THEN <<>> ELSE Flat[k - 1] \o synonyms[FieldNames[k]]
      all == Flat[Len(FieldNames)]
      marked == [k \in 1..Len(all) |->
                   IF \E j \in 1..(k - 1) : all[j] = all[k] THEN "" ELSE all[k]]
  IN Keep(marked, Range(marked) \ {""})
(* correctionMap.forEach(... while ((match = regex.exec(text)) !== null)   *)
(* matches.push({term: match[0], index: match.index})), the synonyms taken *)
(* in the order scan.  No synonym can overlap itself.                      *)
RECURSIVE collectMatches(_, _)
collectMatches(text, scan) ==
  IF scan = <<>> THEN <<>>
  ELSE LET synonym == Head(scan)
           is == {i \in 1..Len(text) : wordMatch(text, synonym, i)}
       IN [k \in 1..Cardinality(is) |->
             LET i == CHOOSE x \in is : Cardinality({y \in is : y < x}) = k - 1
             IN [term |-> SubSeq(text, i, i + Len(Chars(synonym)) - 1), index |-> i]]
            \o collectMatches(text, Tail(scan))
sortMatchesMutant(matches) == matches
\* matches.sort((a, b) => b.index - a.index): stable, descending
RECURSIVE sortMatches(_)
sortMatches(matches) ==
  IF matches = <<>> THEN <<>>
  ELSE LET rest == sortMatches(Tail(matches))
           before == {k \in 1..Len(rest) : rest[k].index > Head(matches).index}
           n == IF before = {} THEN 0 ELSE CHOOSE k \in before : \A j \in before : j <= k
       IN SubSeq(rest, 1, n) \o <<Head(matches)>> \o SubSeq(rest, n + 1, Len(rest))
spliceMutant(correctedText, index, term, correctedTerm) ==
  SubSeq(correctedText, 1, index - 1) \o correctedTerm
    \o SubSeq(correctedText, index + Len(correctedTerm), Len(correctedText))
\* correctedText.substring(0, index) + correctedTerm + correctedText.substring(index + term.length)
splice(correctedText, index, term, correctedTerm) ==
  SubSeq(correctedText, 1, index - 1) \o correctedTerm
    \o SubSeq(correctedText, index + Len(term), Len(correctedText))
\* the body of correctFieldNames, correctionMap.forEach visiting the synonyms in order scan
correctInOrder(text, scan) ==
  LET sorted == sortMatches(collectMatches(text, scan))
      lowerTerm(m) == [k \in 1..Len(m.term) |-> Lower(m.term[k])]
      Has(m) == \E key \in Range(correctionKeys) : Chars(key) = lowerTerm(m)
      correctedTerm(m) ==
        correctionMap(CHOOSE key \in Range(correctionKeys) : Chars(key) = lowerTerm(m))
      Each[k \in 0..Len(sorted)] ==
        IF k = 0 THEN [correctedText |-> text, corrections |-> <<>>]
        ELSE IF ~Has(sorted[k]) THEN Each[k - 1]
        ELSE [correctedText |->
                splice(Each[k - 1].correctedText, sorted[k].index, sorted[k].term,
                       Chars(correctedTerm(sorted[k]))),
              corrections |->
                Append(Each[k - 1].corrections,
                       [original |-> sorted[k].term, corrected |-> correctedTerm(sorted[k])])]
  IN Each[Len(sorted)]
correctFieldNames(text) == correctInOrder(text, correctionKeys)

\* exampleKey.includes(matchedKey) on lower-cased words
Includes(example, key) ==
  \E o \in 0..(Len(example) - Len(key)) : SubSeq(example, o + 1, o + Len(key)) = key
\* match[0].split(':')[0].trim().toLowerCase()
matchedKey(v, m) ==
  LET mt == matchedText(v, m)
      colons == {k \in 1..Len(mt) : mt[k] = ":"}
      key == IF colons = {} THEN mt ELSE SubSeq(mt, 1, Min(colons) - 1)
  IN [k \in 1..Len(key) |-> Lower(key[k])]
confidenceBoost(f, p, m, text) ==
  LET Boost(key) == IF key # <<>> /\ Includes(exampleKey[f][p], key) THEN 30 ELSE 0
  IN IF m.s # 0 THEN Boost(matchedKey(text, m)) ELSE 0
RECURSIVE SumBoosts(_, _)
SumBoosts(pats, k) == IF k = 0 THEN 0 ELSE pats[k].confidenceBoost + SumBoosts(pats, k - 1)
ClampMutant(c) == c
(* Math.min(1, confidence).  The confidences of analyzeFieldRecognition    *)
(* are fractions of 1 in the source (0.4, 0.6, a boost of 0.3), written    *)
(* here in hundredths: structureRecognizedData stores field.confidence *   *)
(* 100, next to the numbers 90, 95, 100, 60, 85, 80 of the direct title    *)
(* and of the fallbacks.                                                   *)
Clamp(c) == IF c > 100 THEN 100 ELSE c
recognizeField(patterns, f, text) ==
  LET recognizedSynonyms == \E k \in 1..Len(text) : Words(text[k]) \cap Range(synonyms[f]) # {}
      Recognized(pats) ==
        [fieldName |-> f,
         confidence |-> Clamp((IF recognizedSynonyms THEN 40 ELSE 0)
                                + (IF \E k \in 1..Len(pats) : pats[k].matched THEN 60 ELSE 0)
                                + SumBoosts(pats, Len(pats))),
         patterns |-> pats]
  IN Recognized([k \in 1..Len(patterns[f]) |->
                   \* one element of the map; confidences in percent
                   LET m == exec(f, patterns[f][k], text)
                   IN [priority |-> patterns[f][k], matched |-> m.s # 0,
                       confidenceBoost |-> confidenceBoost(f, patterns[f][k], m, text)]])
SortByConfidenceMutant(rs) == rs
\* .sort((a, b) => b.confidence - a.confidence): stable, descending
RECURSIVE SortByConfidence(_)
SortByConfidence(rs) ==
  IF rs = <<>> THEN <<>>
  ELSE LET rest == SortByConfidence(Tail(rs))
           before == {k \in 1..Len(rest) : rest[k].confidence > Head(rs).confidence}
           n == IF before = {} THEN 0 ELSE CHOOSE k \in before : \A j \in before : j <= k
       IN SubSeq(rest, 1, n) \o <<Head(rs)>> \o SubSeq(rest, n + 1, Len(rest))
analyzeFieldRecognition(patterns, text) ==
  SortByConfidence([k \in 1..Len(FieldNames) |-> recognizeField(patterns, FieldNames[k], text)])

validateFieldValue(fieldName, value) ==
  /\ value # <<>>
  /\ CASE fieldName = "title" ->
            /\ StrLen(value) >= 3
            /\ value # Sentinel
            /\ \A k \in 1..Len(value) : value[k] \notin {"reference", "PROD-2024-789"}
       [] fieldName = "reference" -> Len(value) = 1 /\ IsReference(value[1])
       [] fieldName = "description" -> StrLen(value) >= 3 /\ value[1] # "PROD-2024-789"
       [] fieldName = "quantity" ->
            /\ Len(value) = 1 /\ IsNumber(value[1])
            /\ Hundredths(value[1]) > 0 /\ Hundredths(value[1]) <= 100000000
       [] fieldName = "price" ->
            /\ Len(value) = 1 /\ IsDecimal(value[1])
            /\ Hundredths(value[1]) > 0 /\ Hundredths(value[1]) <= 100000000
       [] fieldName = "notes" -> StrLen(value) >= 3
       [] OTHER -> TRUE

(* case 'quantity' of validateFieldValue, character by character: a value *)
(* is a sequence of characters.  parseInt is reached only by a value that  *)
(* has passed /^\d+$/ (&& short-circuits), where it is the decimal value.   *)
Digit(c) ==
  CASE c = "0" -> 0 [] c = "1" -> 1 [] c = "2" -> 2 [] c = "3" -> 3 [] c = "4" -> 4
    [] c = "5" -> 5 [] c = "6" -> 6 [] c = "7" -> 7 [] c = "8" -> 8 [] c = "9" -> 9
    [] OTHER -> -1  \* no \d
RECURSIVE parseInt(_)
parseInt(value) ==
  IF value = <<>> THEN 0
  ELSE 10 * parseInt(SubSeq(value, 1, Len(value) - 1)) + Digit(value[Len(value)])
validateQuantityMutant(value) ==
  /\ value # <<>>
  /\ \A k \in 1..Len(value) : Digit(value[k]) >= 0
  /\ parseInt(value) > 0 /\ parseInt(value) < 1000000
validateQuantity(value) ==
  IF value = <<>> THEN FALSE
  ELSE IF \E k \in 1..Len(value) : Digit(value[k]) < 0 THEN FALSE
  ELSE parseInt(value) > 0 /\ parseInt(value) <= 1000000

\* values.find(v => ...) || '' for the set ks of the indices that pass the test
Find(values, ks) == IF ks = {} THEN <<>> ELSE values[Min(ks)]
selectBestValue(values, fieldName) ==
  IF values = <<>> THEN <<>>
  ELSE IF Len(values) = 1 THEN values[1]
  ELSE LET Is == 1..Len(values)
       IN CASE fieldName = "reference" ->
                 Find(values, {i \in Is : \E k \in 1..Len(values[i]) : IsReference(values[i][k])})
            [] fieldName = "price" ->
                 Find(values, {i \in Is : Len(values[i]) = 1 /\ IsDecimal(values[i][1])})
            [] fieldName = "quantity" ->
                 Find(values, {i \in Is : Len(values[i]) = 1 /\ IsNumber(values[i][1])})
            [] OTHER ->  \* values.sort((a, b) => b.length - a.length)[0]
                 Find(values, {i \in Is : \A j \in Is : StrLen(values[j]) <= StrLen(values[i])})

\* data: a function from the keys present to [value, confidence]
Put(data, f, value, confidence) ==
  [g \in DOMAIN data \cup {f} |->
     IF g = f THEN [value |-> value, confidence |-> confidence] ELSE data[g]]
\* data[f]?.value is truthy
HasValue(data, f) == f \in DOMAIN data /\ data[f].value # <<>>

\* text.match(/title\s*:\s*([^:]+?)(?=\s*(?:description|Reference|Quantit|price|Notes)|$)/i)
titleMatch(text) ==
  LabelCapture(text, {"title"}, {"description", "reference", "quantit", "price", "notes"},
               FALSE, FALSE)
SortByPriorityMutant(order) == order
\* fieldConfig.patterns.sort((a, b) => b.priority - a.priority), in place
SortByPriority(order) ==
  IF Len(order) = 2 /\ order[1] < order[2] THEN <<order[2], order[1]>> ELSE order
\* if (match?.[1]) { ... if (this.validateFieldValue(fieldName, processedValue)) push }
Candidate(patterns, f, p, m) ==
  LET Valid(processedValue) ==
        IF validateFieldValue(f, processedValue) THEN <<processedValue>> ELSE <<>>
  IN IF m.s # 0 /\ m.cap # <<>> THEN Valid(valueProcessor(patterns, f, p, m.cap)) ELSE <<>>
\* the validated candidates of field f, pattern by pattern in catalog order
RECURSIVE Candidates(_, _, _, _)
Candidates(patterns, f, text, k) ==
  IF k > Len(patterns[f]) \/ text = <<>> THEN <<>>
  ELSE Candidate(patterns, f, patterns[f][k], exec(f, patterns[f][k], text))
         \o Candidates(patterns, f, text, k + 1)
\* one iteration of the loops over the required and the optional fields
ExtractField(st, f, text, recognizedFields) ==
  IF f \in DOMAIN st.data /\ (~required[f] \/ f = "title") THEN st
  ELSE LET field == CHOOSE r \in Range(recognizedFields) : r.fieldName = f
           sorted == [st.patterns EXCEPT ![f] = SortByPriority(@)]
           Store(bestValue) ==
             [patterns |-> sorted,
              data |-> IF bestValue # <<>> THEN Put(st.data, f, bestValue, field.confidence)
                       ELSE st.data]
       IN Store(selectBestValue(Candidates(sorted, f, text, 1), f))

RECURSIVE ExtractFields(_, _, _, _, _)
ExtractFields(st, fields, text, recognizedFields, k) ==
  IF k > Len(fields) THEN st
  ELSE ExtractFields(ExtractField(st, fields[k], text, recognizedFields),
                     fields, text, recognizedFields, k + 1)

\* the conditions under which validateAndCleanFields deletes data[f]
Invalid(data, f) ==
        /\ HasValue(data, f)
        /\ CASE f = "reference" ->
                  ~(Len(data[f].value) = 1 /\ Upper(data[f].value[1]) = "PROD-2024-789")
             [] f \in {"title", "description"} ->
                  StrLen(data[f].value) < 3 \/ data[f].value[1] = "PROD-2024-789"
             [] f = "price" ->
                  \/ ~(Len(data[f].value) = 1 /\ IsDecimal(data[f].value[1]))
                  \/ Hundredths(data[f].value[1]) <= 0
             [] f = "quantity" ->
                  \/ ~(Len(data[f].value) = 1 /\ IsNumber(data[f].value[1]))
                  \/ Hundredths(data[f].value[1]) <= 0
             [] OTHER -> FALSE
validateAndCleanFields(data) == [f \in {g \in DOMAIN data : ~Invalid(data, g)} |-> data[f]]

\* the fallback of postProcessFields for field f: NoMatch, or the match with the value in cap
Fallback(f, text) ==
  CASE f = "title" ->
         LabelCapture(text, {"designation"}, TitleStops, FALSE, TRUE)
    [] f = "description" ->
         LET m == LabelCapture(text, {"designation"},
                               TitleStops \ {"description", "désignation", "designation"},
                               FALSE, TRUE)
         IN [m EXCEPT !.cap = cleanDescription(@)]
    [] f = "reference" ->
         LET is == {i \in 1..(Len(text) - 2) : /\ Starts(text[i], {"rference"})
                                               /\ text[i + 1] = ":"
                                               /\ IsReference(text[i + 2])}
         IN IF is = {} THEN NoMatch
            ELSE Match(Min(is), Min(is) + 2, <<Upper(text[Min(is) + 2])>>)
    [] f = "price" -> LabelledPrice(text, PriceLabels \cup {"price"})
    [] f = "quantity" -> quantityPattern1(text)
    [] OTHER ->
         LET is == {i \in 1..(Len(text) - 2) : Starts(text[i], {"notes"}) /\ text[i + 1] = ":"}
         IN IF is = {} THEN NoMatch
            ELSE Match(Min(is), Len(text), cleanNotes(SubSeq(text, Min(is) + 2, Len(text))))
FallbackValueMutant(data, f, m) ==
  IF m.s # 0
  THEN Put(data, f, Toks(m.cap),
           [title |-> 95, description |-> 100, reference |-> 60, price |-> 85,
            quantity |-> 80, notes |-> 60][f])
  ELSE data
\* if (!data[f]?.value) { const m = text.match(...); if (m) data[f] = {...} }
FallbackValue(data, f, m) ==
  IF ~HasValue(data, f) /\ m.s # 0
  THEN Put(data, f, Toks(m.cap),
           [title |-> 95, description |-> 100, reference |-> 60, price |-> 85,
            quantity |-> 80, notes |-> 60][f])
  ELSE data
RECURSIVE Fallbacks(_, _, _)
Fallbacks(data, text, fields) ==
  IF fields = <<>> THEN data
  ELSE Fallbacks(FallbackValue(data, Head(fields), Fallback(Head(fields), text)),
                 text, Tail(fields))
\* Object.keys(data).forEach(key => data[key].value = this.cleanField(...))
cleanFields(patterns, data) ==
  [f \in DOMAIN data |->
     \* the names of the catalog's fields other than f, in catalog order
     [data[f] EXCEPT !.value = cleanField(patterns, @,
                                          Keep(FieldNames, Range(FieldNames) \ {f}))]]
postProcessFields(patterns, data, remainingText) ==
  cleanFields(patterns,
              Fallbacks(data, remainingText,
                        <<"title", "description", "reference", "price", "quantity", "notes">>))

\* if (titleMatch) data.title = {value: titleMatch[1].trim(), confidence: 90}
directTitle(data, m, otherwise) ==
  IF m.s # 0 THEN Put(data, "title", Toks(m.cap), 90) ELSE otherwise
ensureTitleMutant(data, text) == data
\* if (!data.title || data.title.value === 'Titre non détecté') { ... }
ensureTitle(data, text) ==
  IF "title" \notin DOMAIN data \/ data["title"].value = Sentinel
  THEN directTitle(data, titleMatch(text), Put(data, "title", Sentinel, 0))
  ELSE data
(* the steps of structureRecognizedData after its two loops; extracted and  *)
(* postProcessed are data as the loops and postProcessFields have left it  *)
finishData(st, text) ==
  LET postProcessed == postProcessFields(st.patterns, st.data, text)
  IN [patterns |-> st.patterns,
      extracted |-> st.data,
      postProcessed |-> postProcessed,
      data |-> ensureTitle(validateAndCleanFields(postProcessed), text)]
structureRecognizedData(patterns, text, recognizedFields) ==
  finishData(ExtractFields(
               ExtractFields([patterns |-> patterns,
                              data |-> directTitle(<<>>, titleMatch(text), <<>>)],
                             \* this.fieldConfigs.filter(f => f.required)
                             Keep(FieldNames, {f \in Range(FieldNames) : required[f]}),
                             text, recognizedFields, 1),
               \* this.fieldConfigs.filter(f => !f.required)
               Keep(FieldNames, {f \in Range(FieldNames) : ~required[f]}),
               text, recognizedFields, 1),
             text)

(* calculateConfidence with the weights of this.fieldConfigs.  Confidences  *)
(* are in percent and weights in hundredths, a weight of 0 standing for a  *)
(* field the catalog gives no weight; Math.round rounds a half upwards.    *)
RECURSIVE WeightedSum(_, _, _)
WeightedSum(weights, recognizedFields, k) ==
  IF k = 0 THEN 0
  ELSE recognizedFields[k].confidence * weights[recognizedFields[k].fieldName]
         + WeightedSum(weights, recognizedFields, k - 1)
RECURSIVE TotalWeight(_, _, _)
TotalWeight(weights, recognizedFields, k) ==
  IF k = 0 THEN 0
  ELSE weights[recognizedFields[k].fieldName] + TotalWeight(weights, recognizedFields, k - 1)
calculateConfidenceMutant(weights, recognizedFields) ==
  LET weightedSum == WeightedSum(weights, recognizedFields, Len(recognizedFields))
      totalWeight == TotalWeight(weights, recognizedFields, Len(recognizedFields))
  IN IF totalWeight > 0 THEN weightedSum \div totalWeight ELSE 0
calculateConfidence(weights, recognizedFields) ==
  LET weightedSum == WeightedSum(weights, recognizedFields, Len(recognizedFields))
      totalWeight == TotalWeight(weights, recognizedFields, Len(recognizedFields))
  IN IF totalWeight > 0 THEN (2 * weightedSum + totalWeight) \div (2 * totalWeight) ELSE 0

\* the synchronous tail of processDocument, from preprocessText to the response
(* Stage by stage, each with the results of the stages before it: the     *)
(* patterns as the sorts have left them, and all that the response holds. *)
Finalize(preProcessedText, corrected, recognizedFields, structured) ==
  [patterns |-> structured.patterns,
   preProcessedText |-> preProcessedText,
   correctedText |-> corrected.correctedText,
   corrections |-> corrected.corrections,
   recognizedFields |-> recognizedFields,
   extracted |-> structured.extracted,
   postProcessed |-> structured.postProcessed,
   structuredData |-> structured.data,
   data |-> postProcessFields(structured.patterns, structured.data, corrected.correctedText),
   confidence |-> calculateConfidence(weight, recognizedFields)]
Structure(patterns, preProcessedText, corrected, recognizedFields) ==
  Finalize(preProcessedText, corrected, recognizedFields,
           structureRecognizedData(patterns, corrected.correctedText, recognizedFields))
Analyze(patterns, preProcessedText, corrected) ==
  Structure(patterns, preProcessedText, corrected,
            analyzeFieldRecognition(patterns, corrected.correctedText))
Correct(patterns, preProcessedText) ==
  Analyze(patterns, preProcessedText, correctWords(preProcessedText))
\* the normalised text, taken word by word
Pipeline(patterns, text) == Correct(patterns, Toks(preprocessText(text)))
processedMutant(patterns, data) ==
  [Pipeline(patterns, data.text) EXCEPT !.confidence = (@ + data.confidence) \div 2]
(* const { text, confidence } = await this.extractTextWithRetry(imagePath) *)
(* and the stages that follow: they are given the text                     *)
processed(patterns, data) == Pipeline(patterns, data.text)

\* ------------------------------------------------------------ the service
VARIABLES
  workerPool,      \* this.workerPool: the engine instances, by number
  created,         \* how many engine instances createWorker('fra') has delivered
  terminated,      \* how often terminate() was called on each instance
  lastConfidence,  \* this.lastConfidence
  fieldConfigs,    \* the order of fieldConfig.patterns, by field: sort() is in place
  pc,              \* where each caller's processDocument is waiting
  frame,           \* its locals (i, worker, lastError, debug) and what the call did:
                   \* getWorker and recognize calls, backoffs, whether the worker came
                   \* from the pool, the errors of the attempts, what was thrown
  outcome,         \* what its promise settled with
  calls,           \* processDocument calls so far
  destroying,      \* onModuleDestroy is waiting for Promise.all
  destroys,        \* onModuleDestroy calls so far
  overlapped,      \* a getWorker started while another one was in flight
  doc,             \* SpecDoc: the document being processed and its response;
                   \* SpecUnit: the function called, its arguments and what it returned
  pdf,             \* PdfArticleExtractorService: the extractStructuredData call
  parser,          \* its pdfParser when calls overlap: the listeners, the buffers being
                   \* parsed, the calls and the last event
  inventory        \* ExpenseArticleInvoiceEntryService: the article's row and the saves
vars ==
  <<workerPool, created, terminated, lastConfidence, fieldConfigs, pc, frame, outcome,
    calls, destroying, destroys, overlapped, doc, pdf, parser, inventory>>

Error(message) == [message |-> message]
NoError == Error("undefined")
\* what the engine can reject with, and the confidences it can report
EngineErrors == {Error("Worker failed"), Error("Fetch failed")}
EngineConfidences == {42, 87}
NoFrame ==
  [exists |-> TRUE, debug |-> FALSE, i |-> 0, worker |-> 0, lastError |-> NoError,
   getWorkers |-> 0, recognizes |-> 0, backoffs |-> 0, delay |-> 0, pooled |-> FALSE,
   errors |-> <<>>, thrown |-> NoError, shutdowns |-> 0, confidence |-> 0]
Pending == [kind |-> "pending"]
\* no extractStructuredData call is under way
NoExtraction ==
  [pc |-> "idle", buffer |-> [present |-> FALSE, bytes |-> <<>>], pdfData |-> <<>>,
   parseBuffers |-> 0, splits |-> 0, parses |-> 0, uncaught |-> FALSE,
   outcome |-> Pending]

\* the try block returns: the response of a processed document
Response(r, text, debug) ==
  [kind |-> "returned",
   value |->
     [success |-> TRUE, data |-> r.data, confidence |-> r.confidence,
      message |-> "Document processed successfully"]
     @@ (IF debug
         THEN [recognitionDetails |-> r.recognizedFields,
               debug |-> [ocrText |-> text, preProcessedText |-> r.preProcessedText,
                          correctedText |-> r.correctedText,
                          warnings |-> IF r.confidence < 70 THEN <<"Low confidence score">>
                                       ELSE <<>>]]
         ELSE <<>>)
     @@ (IF r.corrections # <<>> THEN [corrections |-> r.corrections] ELSE <<>>)]
catchMutant(error) == [kind |-> "rejected", value |-> error]
\* the catch block of processDocument
catch(error) ==
  [kind |-> "returned",
   value |-> [success |-> FALSE, data |-> <<>>, confidence |-> 0, message |-> error.message]]

Init ==
  /\ workerPool = <<>>
  /\ created = 0
  /\ terminated = [w \in WorkerIds |-> 0]
  /\ lastConfidence = 0
  /\ fieldConfigs = InitialPatterns
  /\ pc = [p \in Callers |-> "idle"]
  /\ frame = [p \in Callers |-> NoFrame]
  /\ outcome = [p \in Callers |-> Pending]
  /\ calls = 0
  /\ destroying = FALSE
  /\ destroys = 0
  /\ overlapped = FALSE
  /\ doc = [stage |-> "idle"]
  /\ pdf = NoExtraction
  \* the shared pdfParser with no call under way: the once-listeners of
  \* pdfParser_dataReady by the call that registered them, the buffers it is
  \* parsing, the calls, and the event it emitted last
  /\ parser = [listeners |-> <<>>, parsing |-> {},
               calls |-> [c \in Callers |-> NoExtraction],
               started |-> 0, event |-> [kind |-> "none"]]
  \* the row of one existing article, and no save under way: a save holds the
  \* quantity of its dto, the article as it has read it, and the stock its
  \* UPDATE has found (-1 before it has run)
  /\ inventory = [quantityInStock |-> MaxStock, started |-> 0,
                  saves |-> [s \in Callers |->
                               [pc |-> "idle", quantity |-> 0, article |-> 0,
                                available |-> -1, outcome |-> Pending]]]

fileMissingMutant(exists) == FALSE
\* if (!existsSync(imagePath))
fileMissing(exists) == ~exists
hasCapacityMutant(pool) == Len(pool) <= MAX_WORKERS
\* if (this.workerPool.length < this.MAX_WORKERS)
hasCapacity(pool) == Len(pool) < MAX_WORKERS
caughtMutant(lastError, error) == IF lastError = NoError THEN error ELSE lastError
\* lastError = error
caught(lastError, error) == error
emptiedMutant(pool) == pool
\* this.workerPool = []
emptied(pool) == <<>>

(* getWorker, called with the caller's locals fr, up to its first await: it *)
(* starts createWorker, or picks a pooled instance, on which recognize is  *)
(* called.                                                                 *)
getWorker(p, fr) ==
  /\ overlapped' = (overlapped
                      \/ \E q \in Callers \ {p} : pc[q] \in {"createWorker", "setParameters"})
  /\ IF hasCapacity(workerPool)
     THEN /\ pc' = [pc EXCEPT ![p] = "createWorker"]
          /\ frame' = [frame EXCEPT ![p] = [fr EXCEPT !.getWorkers = @ + 1,
                                                      !.pooled = FALSE]]
     ELSE \E k \in 1..Len(workerPool) :
            /\ pc' = [pc EXCEPT ![p] = "recognize"]
            /\ frame' = [frame EXCEPT ![p] = [fr EXCEPT !.getWorkers = @ + 1,
                                                        !.worker = workerPool[k],
                                                        !.pooled = TRUE,
                                                        !.recognizes = @ + 1]]
backoffDelayMutant(i) == 500
\* setTimeout(resolve, 500 * (i + 1)), in ms
backoffDelay(i) == 500 * (i + 1)
\* the catch block of extractTextWithRetry: note the error, start the backoff timer
attemptFailed(p, error) ==
  /\ pc' = [pc EXCEPT ![p] = "backoff"]
  /\ frame' = [frame EXCEPT ![p].lastError = caught(@, error),
                            ![p].errors = Append(@, error),
                            ![p].backoffs = @ + 1,
                            ![p].delay = backoffDelay(frame[p].i)]

processDocument(p) ==
  /\ pc[p] = "idle"
  /\ calls < MaxCalls
  /\ calls' = calls + 1
  /\ \E exists \in BOOLEAN :
       LET fr == [NoFrame EXCEPT !.exists = exists]
       IN IF fileMissing(exists)
          THEN /\ outcome' = [outcome EXCEPT ![p] = catch(Error("File not found"))]
               /\ frame' = [frame EXCEPT ![p] = [fr EXCEPT !.thrown = Error("File not found")]]
               /\ UNCHANGED <<pc, overlapped>>
          ELSE /\ outcome' = [outcome EXCEPT ![p] = Pending]
               /\ getWorker(p, fr)
  /\ UNCHANGED <<workerPool, created, terminated, lastConfidence, fieldConfigs,
                 destroying, destroys, doc, pdf, parser, inventory>>

\* await createWorker('fra') resolves: worker.setParameters is called
createWorkerResolved(p) ==
  /\ pc[p] = "createWorker"
  /\ created' = created + 1
  /\ frame' = [frame EXCEPT ![p].worker = created + 1]
  /\ pc' = [pc EXCEPT ![p] = "setParameters"]
  /\ UNCHANGED <<workerPool, terminated, lastConfidence, fieldConfigs, outcome, calls,
                 destroying, destroys, overlapped, doc, pdf, parser, inventory>>
createWorkerRejected(p) ==
  /\ pc[p] = "createWorker"
  /\ \E error \in EngineErrors : attemptFailed(p, error)
  /\ UNCHANGED <<workerPool, created, terminated, lastConfidence, fieldConfigs, outcome,
                 calls, destroying, destroys, overlapped, doc, pdf, parser, inventory>>
\* await worker.setParameters resolves: getWorker pushes the worker, recognize is called
setParametersResolved(p) ==
  /\ pc[p] = "setParameters"
  /\ workerPool' = Append(workerPool, frame[p].worker)
  /\ frame' = [frame EXCEPT ![p].recognizes = @ + 1]
  /\ pc' = [pc EXCEPT ![p] = "recognize"]
  /\ UNCHANGED <<created, terminated, lastConfidence, fieldConfigs, outcome, calls,
                 destroying, destroys, overlapped, doc, pdf, parser, inventory>>
setParametersRejected(p) ==
  /\ pc[p] = "setParameters"
  /\ \E error \in EngineErrors : attemptFailed(p, error)
  /\ UNCHANGED <<workerPool, created, terminated, lastConfidence, fieldConfigs, outcome,
                 calls, destroying, destroys, overlapped, doc, pdf, parser, inventory>>

(* await worker.recognize resolves: extractTextWithRetry returns, and     *)
(* processDocument runs to its end.  A result without text makes          *)
(* preprocessText throw a TypeError.                                       *)
TypeError == Error("Cannot read properties of undefined (reading 'replace')")
recognizeResolved(p) ==
  /\ pc[p] = "recognize"
  /\ pc' = [pc EXCEPT ![p] = "idle"]
  \* what the engine can resolve with: a text and a confidence, or no text
  /\ \E data \in {[text |-> t, confidence |-> c] :
                     t \in {<<"Référence", ":", " ", "PROD-2024-789", "\r", "\n",
                              "prix", ":", " ", "0.00", "\n">>},
                     c \in EngineConfidences}
                  \cup {[confidence |-> c] : c \in EngineConfidences} :
       /\ lastConfidence' = data.confidence
       /\ IF "text" \in DOMAIN data
          THEN \E r \in {processed(fieldConfigs, data)} :
                 /\ fieldConfigs' = r.patterns
                 /\ outcome' = [outcome EXCEPT ![p] = Response(r, data.text, frame[p].debug)]
                 /\ frame' = [frame EXCEPT ![p].confidence = data.confidence]
          ELSE /\ outcome' = [outcome EXCEPT ![p] = catch(TypeError)]
               /\ frame' = [frame EXCEPT ![p].thrown = TypeError,
                                         ![p].confidence = data.confidence]
               /\ UNCHANGED fieldConfigs
  /\ UNCHANGED <<workerPool, created, terminated, calls, destroying, destroys, overlapped,
                 doc, pdf, parser, inventory>>
recognizeRejected(p) ==
  /\ pc[p] = "recognize"
  /\ \E error \in EngineErrors : attemptFailed(p, error)
  /\ UNCHANGED <<workerPool, created, terminated, lastConfidence, fieldConfigs, outcome,
                 calls, destroying, destroys, overlapped, doc, pdf, parser, inventory>>
(* the timer of 500 * (i + 1) ms fires: i++, and either the next attempt   *)
(* or throw lastError, which processDocument catches                       *)
backoffElapsed(p) ==
  /\ pc[p] = "backoff"
  /\ IF frame[p].i + 1 < retries
     THEN /\ getWorker(p, [frame[p] EXCEPT !.i = @ + 1])
          /\ UNCHANGED outcome
     ELSE /\ pc' = [pc EXCEPT ![p] = "idle"]
          /\ frame' = [frame EXCEPT ![p].i = @ + 1, ![p].thrown = frame[p].lastError]
          /\ outcome' = [outcome EXCEPT ![p] = catch(frame[p].lastError)]
          /\ UNCHANGED overlapped
  /\ UNCHANGED <<workerPool, created, terminated, lastConfidence, fieldConfigs, calls,
                 destroying, destroys, doc, pdf, parser, inventory>>

(* this.workerPool.map(worker => worker?.terminate()), up to await         *)
(* Promise.all; a call in flight notes in shutdowns that it has seen one   *)
onModuleDestroy ==
  /\ ~destroying
  /\ destroys < MaxDestroys
  /\ destroys' = destroys + 1
  /\ destroying' = TRUE
  /\ terminated' = [w \in WorkerIds |->
                      terminated[w] + Cardinality({k \in 1..Len(workerPool) : workerPool[k] = w})]
  /\ frame' = [p \in Callers |->
                 IF pc[p] # "idle" THEN [frame[p] EXCEPT !.shutdowns = @ + 1] ELSE frame[p]]
  /\ UNCHANGED <<workerPool, created, lastConfidence, fieldConfigs, pc, outcome,
                 calls, overlapped, doc, pdf, parser, inventory>>
onModuleDestroyResolved ==
  /\ destroying
  /\ destroying' = FALSE
  /\ workerPool' = emptied(workerPool)
  /\ UNCHANGED <<created, terminated, lastConfidence, fieldConfigs, pc, frame, outcome,
                 calls, destroys, overlapped, doc, pdf, parser, inventory>>

(* Spec: processDocument called by NumCallers clients whose calls overlap, *)
(* while the service is up.                                               *)
Next ==
  \E p \in Callers :
    \/ processDocument(p)
    \/ createWorkerResolved(p)
    \/ createWorkerRejected(p)
    \/ setParametersResolved(p)
    \/ setParametersRejected(p)
    \/ recognizeResolved(p)
    \/ recognizeRejected(p)
    \/ backoffElapsed(p)
Spec == Init /\ [][Next]_vars

(* SpecShutdown: one client calling processDocument, and the module being *)
(* destroyed, at any moment of a call and more than once.                 *)
SpecShutdown ==
  Init /\ [][\/ \E p \in {1} : \/ processDocument(p)
                               \/ createWorkerResolved(p)
                               \/ createWorkerRejected(p)
                               \/ setParametersResolved(p)
                               \/ setParametersRejected(p)
                               \/ recognizeResolved(p)
                               \/ recognizeRejected(p)
                               \/ backoffElapsed(p)
            \/ onModuleDestroy
            \/ onModuleDestroyResolved]_vars

\* ----------------------------------------------- one document after another
(* SpecDoc: the engine delivers every text of at most MaxLen words, laid   *)
(* out on one line or one word per line, and processDocument runs its      *)
(* synchronous part on it; the caller then takes the response.             *)
RECURSIVE Join(_, _)
Join(words, separator) ==
  IF Len(words) <= 1 THEN words
  ELSE <<Head(words)>> \o separator \o Join(Tail(words), separator)
OcrText(words, layout) ==
  IF layout = "line" THEN Join(words, <<" ">>)
  ELSE <<" ">> \o Join(words, <<"\r", "\n">>) \o <<"\n">>
processText ==
  /\ doc.stage = "idle"
  /\ \E words \in UNION {[1..n -> Vocabulary] : n \in 0..MaxLen},
        layout \in {"line", "lines"}, debug \in BOOLEAN, confidence \in EngineConfidences :
       \E r \in {processed(fieldConfigs, [text |-> OcrText(words, layout),
                                          confidence |-> confidence])} :
         /\ lastConfidence' = confidence
         /\ fieldConfigs' = r.patterns
         /\ doc' = [stage |-> "done", debug |-> debug,
                    ocrText |-> OcrText(words, layout),
                    confidence |-> confidence,
                    correctedText |-> r.correctedText,
                    recognizedFields |-> r.recognizedFields,
                    extracted |-> r.extracted,
                    postProcessed |-> r.postProcessed,
                    structuredData |-> r.structuredData,
                    outcome |-> Response(r, OcrText(words, layout), debug)]
  /\ UNCHANGED <<workerPool, created, terminated, pc, frame, outcome, calls, destroying,
                 destroys, overlapped, pdf, parser, inventory>>
takeResponse ==
  /\ doc.stage = "done"
  /\ doc' = [stage |-> "idle"]
  /\ UNCHANGED <<workerPool, created, terminated, lastConfidence, fieldConfigs, pc, frame,
                 outcome, calls, destroying, destroys, overlapped, pdf, parser, inventory>>
SpecDoc == Init /\ [][processText \/ takeResponse]_vars

\* ------------------------------------------------- the functions, one by one
(* SpecUnit: a test calls a private function of the service on a value and *)
(* notes what it returns.                                                  *)
callValidateFieldValue ==
  /\ doc.stage = "idle"
  /\ \E value \in UNION {[1..n -> {"0", "1", "-", "a"}] : n \in 0..MaxDigits} :
       doc' = [stage |-> "validateFieldValue", fieldName |-> "quantity", value |-> value,
               returned |-> validateQuantity(value)]
  /\ UNCHANGED <<workerPool, created, terminated, lastConfidence, fieldConfigs, pc, frame,
                 outcome, calls, destroying, destroys, overlapped, pdf, parser, inventory>>
(* calculateConfidence on a list of recognition results, with a catalog    *)
(* that gives title, description and reference a weight of 0.2 or 0.8 or   *)
(* none.  On these inputs the double arithmetic of the source is exact up  *)
(* to the rounding.                                                        *)
callCalculateConfidence ==
  /\ doc.stage = "idle"
  /\ \E w \in [{"title", "description", "reference"} -> {0, 20, 80}],
        recognizedFields \in
          UNION {[1..n -> [fieldName : {"title", "description", "reference"},
                           confidence : {0, 50, 100}]] : n \in 0..MaxResults} :
       doc' = [stage |-> "calculateConfidence", weights |-> w @@ weight,
               recognizedFields |-> recognizedFields,
               returned |-> calculateConfidence(w @@ weight, recognizedFields)]
  /\ UNCHANGED <<workerPool, created, terminated, lastConfidence, fieldConfigs, pc, frame,
                 outcome, calls, destroying, destroys, overlapped, pdf, parser, inventory>>
\* preprocessText on a text, and on what it returned
callPreprocessText ==
  /\ doc.stage = "idle"
  /\ \E text \in UNION {[1..n -> {"a", ":", " ", "\n", "\r", "\t"}] : n \in 0..MaxChars} :
       doc' = [stage |-> "preprocessText", text |-> text, returned |-> preprocessText(text),
               again |-> preprocessText(preprocessText(text))]
  /\ UNCHANGED <<workerPool, created, terminated, lastConfidence, fieldConfigs, pc, frame,
                 outcome, calls, destroying, destroys, overlapped, pdf, parser, inventory>>
(* correctFieldNames on a text put together from synonyms, a letter, a     *)
(* blank and a colon, and its body with the synonyms of these texts        *)
(* scanned in any order.                                                   *)
callCorrectFieldNames ==
  /\ doc.stage = "idle"
  /\ \E text \in
          LET Pieces == {"titre", "Prix", "ref", "quantité", "s", " ", ":"}
              Spell(pieces) ==
                LET At[k \in 0..Len(pieces)] ==
                      IF k = 0 THEN <<>> ELSE At[k - 1] \o Chars(pieces[k])
                IN At[Len(pieces)]
          IN {Spell(pieces) : pieces \in UNION {[1..n -> Pieces] : n \in 0..MaxPieces}},
        scan \in {q \in [1..4 -> {"titre", "prix", "ref", "quantité"}] :
                    \A j, k \in 1..4 : q[j] = q[k] => j = k} :
       doc' = [stage |-> "correctFieldNames", text |-> text, scan |-> scan,
               returned |-> correctFieldNames(text),
               scanned |-> correctInOrder(text, scan)]
  /\ UNCHANGED <<workerPool, created, terminated, lastConfidence, fieldConfigs, pc, frame,
                 outcome, calls, destroying, destroys, overlapped, pdf, parser, inventory>>
\* the test goes on to its next call
nextCall ==
  /\ doc.stage \in {"validateFieldValue", "calculateConfidence", "preprocessText",
                     "correctFieldNames"}
  /\ doc' = [stage |-> "idle"]
  /\ UNCHANGED <<workerPool, created, terminated, lastConfidence, fieldConfigs, pc, frame,
                 outcome, calls, destroying, destroys, overlapped, pdf, parser, inventory>>
SpecUnit ==
  Init /\ [][\/ callValidateFieldValue
            \/ callCalculateConfidence
            \/ callPreprocessText
            \/ callCorrectFieldNames
            \/ nextCall]_vars

\* ------------------------------------------------ PdfArticleExtractorService
BadRequestException(message) == [type |-> "BadRequestException", message |-> message]

(* validatePdfBuffer returns (TRUE) or throws (FALSE).  A buffer is its     *)
(* bytes, or is missing.  toString('ascii') decodes a byte with its high   *)
(* bit cleared, and '%PDF' is 37, 80, 68, 70.                              *)
validatePdfBuffer(buffer) ==
  ~(\/ ~buffer.present
    \/ Len(buffer.bytes) < 4
    \/ [k \in 1..4 |-> buffer.bytes[k] % 128] # <<37, 80, 68, 70>>)

(* decodeURIComponent(r.T) of a run: an escape becomes its character, and  *)
(* "x*101" stands for a run of 101 letters; a lone "%" makes it throw a    *)
(* URIError.                                                               *)
decodeURIComponent(T) ==
  CASE T = "%0C" -> <<"\f">>
    [] T = "%20" -> <<" ">>
    [] T = "x*101" -> [k \in 1..101 |-> "x"]
    [] OTHER -> <<T>>
(* pdfData.Pages.flatMap(page => page.Texts || [])                         *)
(*   .map(text => text.R.map(r => decodeURIComponent(r.T)).join(''))       *)
(*   .join(' '): pdfData is its pages, a page its texts, a text its runs   *)
decodedText(pdfData) ==
  LET Flat[k \in 0..Len(pdfData)] == IF k = 0 THEN <<>> ELSE Flat[k - 1] \o pdfData[k]
      texts == Flat[Len(pdfData)]
      Runs(R) ==
        LET At[k \in 0..Len(R)] ==
              IF k = 0 THEN <<>> ELSE At[k - 1] \o decodeURIComponent(R[k])
        IN At[Len(R)]
      Joined[k \in 0..Len(texts)] ==
        IF k = 0 THEN <<>>
        ELSE Joined[k - 1] \o (IF k > 1 THEN <<" ">> ELSE <<>>) \o Runs(texts[k])
  IN Joined[Len(texts)]
\* processPdfData: '' without pages, else the decoded text, .replace(/\s+/g, ' ').trim()
processPdfData(pdfData) ==
  [threw |-> \E k \in 1..Len(pdfData) :
               \E j \in 1..Len(pdfData[k]) : "%" \in Range(pdfData[k][j]),
   text |-> IF pdfData = <<>> THEN <<>> ELSE trim(collapse(decodedText(pdfData)))]
\* fullText.split(/\f/).filter(page => page.trim().length > 0)
splitTextToPages(fullText) ==
  LET cuts == {k \in 1..Len(fullText) : fullText[k] = "\f"}
      \* the position before piece k: 0, or the k-1st form feed
      Cut(k) == IF k = 0 THEN 0
                ELSE IF k > Cardinality(cuts) THEN Len(fullText) + 1
                ELSE CHOOSE x \in cuts : Cardinality({y \in cuts : y < x}) = k - 1
      pieces == [k \in 1..(Cardinality(cuts) + 1) |->
                   SubSeq(fullText, Cut(k - 1) + 1, Cut(k) - 1)]
  IN Keep(pieces, {piece \in Range(pieces) : trim(piece) # <<>>})
(* parseContentToDto on a page of letters and blanks: with no label, no    *)
(* colon and no digit in it, only the second title pattern matches, on the *)
(* whole page; cleanValue collapses and trims.                             *)
parseContentToDto(text) == [title |-> trim(collapse(text)), status |-> "draft"]

\* extractStructuredData throws: its catch block passes a BadRequestException on
thrown(p, message) ==
  [p EXCEPT !.pc = "settled",
            !.outcome = [kind |-> "thrown", value |-> BadRequestException(message)]]
(* extractStructuredData(pdfBuffer, 'a.pdf') up to its await: it validates *)
(* the buffer, registers its listener and hands the buffer to the parser,  *)
(* which may throw at once.                                                *)
extractStructuredData ==
  /\ pdf.pc = "idle"
  /\ \E buffer \in {[present |-> FALSE, bytes |-> <<>>]}
                      \cup {[present |-> TRUE, bytes |-> b] :
                              b \in UNION {[1..n -> {37, 80, 68, 70, 165}] : n \in 0..MaxBytes}} :
       IF ~validatePdfBuffer(buffer)
       THEN pdf' = thrown([pdf EXCEPT !.buffer = buffer], "Invalid PDF file")
       ELSE \E threw \in BOOLEAN :
              pdf' = IF threw
                     THEN thrown([pdf EXCEPT !.buffer = buffer, !.parseBuffers = @ + 1],
                                 "Erreur lors de l'analyse du PDF: ")
                     ELSE [pdf EXCEPT !.buffer = buffer, !.parseBuffers = @ + 1,
                                      !.pc = "parsing"]
  /\ UNCHANGED <<workerPool, created, terminated, lastConfidence, fieldConfigs, pc, frame,
                 outcome, calls, destroying, destroys, overlapped, doc, parser, inventory>>
(* The listener of extractRawText on pdfParser_dataReady, for the call p   *)
(* that waits for it: it resolves or rejects, and extractStructuredData    *)
(* runs to its end.  The result is kept without its extraction date.       *)
onDataReady(p, pdfData) ==
  LET r == processPdfData(pdfData)
      q == [p EXCEPT !.pdfData = pdfData]
      pages == splitTextToPages(r.text)
  IN IF r.threw
     THEN thrown(q, "Erreur lors du traitement des données PDF: URI malformed")
     ELSE IF trim(r.text) = <<>>
     THEN thrown(q, "Aucun texte n'a pu être extrait du PDF")
     ELSE IF pages = <<>>
     THEN thrown([q EXCEPT !.splits = @ + 1], "Aucune page n'a pu être extraite du PDF")
     ELSE [q EXCEPT
             !.pc = "settled", !.splits = @ + 1, !.parses = @ + Len(pages),
             !.outcome =
               [kind |-> "returned",
                value |->
                  [success |-> TRUE, fileName |-> "a.pdf", totalPages |-> Len(pages),
                   pages |->
                     [index \in 1..Len(pages) |->
                        [id |-> index, name |-> <<"a", "-Page_", index>>,
                         contentLength |-> Len(pages[index]),
                         preview |->
                           IF Len(pages[index]) > 100
                           THEN SubSeq(pages[index], 1, 100) \o <<".", ".", ".">>
                           ELSE pages[index],
                         extractedData |-> parseContentToDto(pages[index])]],
                   metadata |-> [source |-> "a.pdf"]]]]
\* the parser emits pdfParser_dataReady with the data of the buffer
pdfParser_dataReady ==
  /\ pdf.pc = "parsing"
  /\ \E pdfData \in UNION {[1..n -> {<<>>} \cup {<<R>> : R \in
                               UNION {[1..m -> {"a", "%0C", "%20", "x*101", "%"}] : m \in 1..2}}]
                           : n \in 0..MaxPages} :
       pdf' = onDataReady(pdf, pdfData)
  /\ UNCHANGED <<workerPool, created, terminated, lastConfidence, fieldConfigs, pc, frame,
                 outcome, calls, destroying, destroys, overlapped, doc, parser, inventory>>
(* The parser emits pdfParser_dataError: the listener of initializeParser  *)
(* throws inside the emit, and nothing settles the promise.                *)
pdfParser_dataError ==
  /\ pdf.pc = "parsing"
  /\ pdf' = [pdf EXCEPT !.pc = "waits", !.uncaught = TRUE]
  /\ UNCHANGED <<workerPool, created, terminated, lastConfidence, fieldConfigs, pc, frame,
                 outcome, calls, destroying, destroys, overlapped, doc, parser, inventory>>
\* the caller has its answer and calls again
nextExtraction ==
  /\ pdf.pc = "settled"
  /\ pdf' = NoExtraction
  /\ UNCHANGED <<workerPool, created, terminated, lastConfidence, fieldConfigs, pc, frame,
                 outcome, calls, destroying, destroys, overlapped, doc, parser, inventory>>
SpecPdf ==
  Init /\ [][\/ extractStructuredData
            \/ pdfParser_dataReady
            \/ pdfParser_dataError
            \/ nextExtraction]_vars

\* ------------------------------------- extractStructuredData calls that overlap
(* SpecShared: the service is a singleton and its calls share one parser.  *)
(* A buffer is %PDF and one more byte: the parser extracts the text "a"    *)
(* from byte 1, "b" from byte 2 and a blank from byte 3.  The parser may   *)
(* finish the buffers handed to it in any order.                           *)
pdfDataOf(buffer) ==
  << << <<CASE buffer.bytes[5] = 1 -> "a" [] buffer.bytes[5] = 2 -> "b" [] OTHER -> "%20">> >> >>
(* extractStructuredData of caller c up to its await: extractRawText       *)
(* registers a once-listener and calls parseBuffer, which may throw; the   *)
(* parser works on the buffer of the n-th call                             *)
extractRawText(c) ==
  /\ parser.calls[c].pc = "idle"
  /\ parser.started < MaxExtractions
  /\ \E byte \in 1..3, threw \in BOOLEAN :
       LET buffer == [present |-> TRUE, bytes |-> <<37, 80, 68, 70, byte>>]
           call == [parser.calls[c] EXCEPT !.buffer = buffer, !.parseBuffers = @ + 1]
       IN /\ validatePdfBuffer(buffer)
          /\ parser' = [parser EXCEPT
                          !.started = @ + 1,
                          !.listeners = Append(@, c),
                          !.parsing = IF threw THEN @
                                      ELSE @ \cup {[n |-> parser.started + 1, caller |-> c,
                                                    buffer |-> buffer]},
                          !.calls[c] =
                            IF threw THEN thrown(call, "Erreur lors de l'analyse du PDF: ")
                            ELSE [call EXCEPT !.pc = "parsing"]]
  /\ UNCHANGED <<workerPool, created, terminated, lastConfidence, fieldConfigs, pc, frame,
                 outcome, calls, destroying, destroys, overlapped, doc, pdf, inventory>>
(* this.pdfParser.emit('pdfParser_dataReady', pdfData) for a buffer that   *)
(* caller c has handed over: every once-listener registered is removed and *)
(* called with the data; it settles the promise of its call if that is     *)
(* still pending                                                           *)
emit_dataReady(c) ==
  /\ \E job \in parser.parsing :
       /\ job.caller = c
       /\ LET pdfData == pdfDataOf(job.buffer)
              completed == {d \in Range(parser.listeners) : parser.calls[d].pc = "parsing"}
          IN parser' = [parser EXCEPT
                          !.listeners = <<>>,
                          !.parsing = @ \ {job},
                          !.calls = [d \in Callers |->
                                       IF d \in completed
                                       THEN onDataReady(parser.calls[d], pdfData)
                                       ELSE parser.calls[d]],
                          !.event = [kind |-> "pdfParser_dataReady", of |-> job,
                                     completed |-> completed]]
  /\ UNCHANGED <<workerPool, created, terminated, lastConfidence, fieldConfigs, pc, frame,
                 outcome, calls, destroying, destroys, overlapped, doc, pdf, inventory>>
(* this.pdfParser.emit('pdfParser_dataError', err) for a buffer of caller  *)
(* c: the listener of initializeParser throws inside the emit; no promise  *)
(* is settled and no listener removed                                      *)
emit_dataError(c) ==
  /\ \E job \in parser.parsing :
       /\ job.caller = c
       /\ parser' = [parser EXCEPT
                       !.parsing = @ \ {job},
                       !.event = [kind |-> "pdfParser_dataError", of |-> job,
                                  completed |-> {}]]
  /\ UNCHANGED <<workerPool, created, terminated, lastConfidence, fieldConfigs, pc, frame,
                 outcome, calls, destroying, destroys, overlapped, doc, pdf, inventory>>
\* caller c has its answer and is ready to call again
settled(c) ==
  /\ parser.calls[c].pc = "settled"
  /\ parser' = [parser EXCEPT !.calls[c] = NoExtraction]
  /\ UNCHANGED <<workerPool, created, terminated, lastConfidence, fieldConfigs, pc, frame,
                 outcome, calls, destroying, destroys, overlapped, doc, pdf, inventory>>
SpecShared ==
  Init /\ [][\E c \in Callers : \/ extractRawText(c)
                                 \/ emit_dataReady(c)
                                 \/ emit_dataError(c)
                                 \/ settled(c)]_vars
\* the parser finishes every buffer it was handed
FairShared ==
  SpecShared /\ \A c \in Callers : WF_vars(emit_dataReady(c) \/ emit_dataError(c))

\* ------------------------------------------ ExpenseArticleInvoiceEntryService
(* SpecStock: callers save invoice entries that reference one existing     *)
(* article, with a quantity of 0..MaxStock and no taxes; the awaits of     *)
(* save resolve in any order.                                              *)
\* save is called: it awaits articleService.findOneByCondition
save(s) ==
  /\ inventory.saves[s].pc = "idle"
  /\ inventory.started < MaxSaves
  /\ \E quantity \in 0..MaxStock :
       inventory' = [inventory EXCEPT
                      !.started = @ + 1,
                      !.saves[s] = [pc |-> "findOneByCondition", quantity |-> quantity,
                                    article |-> 0, available |-> -1, outcome |-> Pending]]
  /\ UNCHANGED <<workerPool, created, terminated, lastConfidence, fieldConfigs, pc, frame,
                 outcome, calls, destroying, destroys, overlapped, doc, pdf, parser>>
(* findOneByCondition resolves with the row as it is now; the stock check  *)
(* throws, or save awaits articleRepository.update                         *)
findOneByConditionResolved(s) ==
  /\ inventory.saves[s].pc = "findOneByCondition"
  /\ LET article == inventory.quantityInStock
         quantityToDeduct == inventory.saves[s].quantity
     IN inventory' = [inventory EXCEPT
                        !.saves[s] =
                          IF article < quantityToDeduct
                          THEN [@ EXCEPT !.pc = "idle", !.article = article,
                                         !.outcome = [kind |-> "thrown",
                                                      value |-> "Stock insuffisant"]]
                          ELSE [@ EXCEPT !.pc = "update", !.article = article]]
  /\ UNCHANGED <<workerPool, created, terminated, lastConfidence, fieldConfigs, pc, frame,
                 outcome, calls, destroying, destroys, overlapped, doc, pdf, parser>>
(* UPDATE article SET quantityInStock = quantityInStock - quantityToDeduct *)
(* WHERE id = ..., on the row as it is now.  The column's type is declared *)
(* outside this code: below zero the database stores the difference        *)
(* (signed column) or rejects the statement (unsigned column), and save    *)
(* throws the driver's error.                                              *)
updateResolved(s) ==
  /\ inventory.saves[s].pc = "update"
  /\ LET available == inventory.quantityInStock
         difference == available - inventory.saves[s].quantity
     IN \/ inventory' = [inventory EXCEPT
                           !.quantityInStock = difference,
                           !.saves[s] = [@ EXCEPT !.pc = "save", !.available = available]]
        \/ /\ difference < 0
           /\ inventory' = [inventory EXCEPT
                              !.saves[s] = [@ EXCEPT !.pc = "idle", !.available = available,
                                                     !.outcome = [kind |-> "thrown",
                                                                  value |-> "QueryFailedError"]]]
  /\ UNCHANGED <<workerPool, created, terminated, lastConfidence, fieldConfigs, pc, frame,
                 outcome, calls, destroying, destroys, overlapped, doc, pdf, parser>>
(* the article is loaded again and articleInvoiceEntryRepository.save      *)
(* resolves: save returns the entry                                        *)
saveResolved(s) ==
  /\ inventory.saves[s].pc = "save"
  /\ inventory' = [inventory EXCEPT
                     !.saves[s] =
                       [@ EXCEPT !.pc = "idle",
                                 !.outcome = [kind |-> "returned",
                                              value |-> [quantity |-> inventory.saves[s].quantity]]]]
  /\ UNCHANGED <<workerPool, created, terminated, lastConfidence, fieldConfigs, pc, frame,
                 outcome, calls, destroying, destroys, overlapped, doc, pdf, parser>>
SpecStock ==
  Init /\ [][\E s \in Callers : \/ save(s)
                                 \/ findOneByConditionResolved(s)
                                 \/ updateResolved(s)
                                 \/ saveResolved(s)]_vars

\* ------------------------------------------------------------- properties
(* C1: processDocument never throws or rejects: whatever is thrown inside  *)
(* it (file not found, the engine's error after the retries, the TypeError *)
(* of the normalisation) ends in a returned result with success = false,   *)
(* data = {}, confidence = 0 and the message of what was thrown; a call    *)
(* that has ended has returned.                                            *)
C1_NeverThrows ==
  \A p \in Callers :
    /\ outcome[p].kind \in {"pending", "returned"}
    /\ (pc[p] = "idle" /\ frame[p] # NoFrame) => outcome[p].kind = "returned"
    /\ frame[p].thrown # NoError =>
         /\ outcome[p].kind = "returned"
         /\ outcome[p].value = [success |-> FALSE, data |-> <<>>, confidence |-> 0,
                                message |-> frame[p].thrown.message]
C1_Witness ==
  \E p, q \in Callers :
    /\ frame[p].thrown = TypeError
    /\ outcome[p].kind = "returned" /\ outcome[p].value.message = TypeError.message
    /\ frame[q].thrown \in EngineErrors
    /\ outcome[q].kind = "returned" /\ outcome[q].value.message = frame[q].thrown.message

(* C2: a call for a path that does not exist ends at once in the failure   *)
(* 'File not found': the call is over in the step that started it, without *)
(* a getWorker call, a worker, a recognize call or a backoff, and that     *)
(* step leaves the pool and the number of created workers as they were.    *)
C2_FileNotFound ==
  [][\A p \in Callers :
       ~frame'[p].exists =>
         /\ pc'[p] = "idle"
         /\ outcome'[p].kind = "returned"
         /\ outcome'[p].value.success = FALSE
         /\ outcome'[p].value.message = "File not found"
         /\ frame'[p].getWorkers = 0 /\ frame'[p].worker = 0
         /\ frame'[p].recognizes = 0 /\ frame'[p].backoffs = 0 /\ frame'[p].errors = <<>>
         /\ (frame[p].exists \/ calls' # calls) =>
              (workerPool' = workerPool /\ created' = created)]_vars
C2_Witness ==
  \E p \in Callers :
    /\ ~frame[p].exists
    /\ outcome[p].kind = "returned" /\ outcome[p].value.message = "File not found"
    /\ workerPool # <<>>

(* C3: extractTextWithRetry makes at most `retries' (2) attempts; when an  *)
(* attempt succeeds it is the last one made, every attempt before it       *)
(* having failed; when both fail, the call ends in the failure whose       *)
(* message is the error of the last attempt.                               *)
C3_Retry ==
  \A p \in Callers :
    /\ frame[p].getWorkers <= retries
    /\ frame[p].recognizes <= frame[p].getWorkers
    /\ Len(frame[p].errors) <= frame[p].getWorkers
    /\ frame[p].backoffs = Len(frame[p].errors)
    /\ (pc[p] = "idle" /\ frame[p].getWorkers > 0 /\ Len(frame[p].errors) < retries) =>
         /\ frame[p].getWorkers = Len(frame[p].errors) + 1
         /\ outcome[p].kind = "returned"
         /\ outcome[p].value.success \/ frame[p].thrown = TypeError
    /\ (pc[p] = "idle" /\ Len(frame[p].errors) = retries) =>
         /\ outcome[p].kind = "returned"
         /\ outcome[p].value.success = FALSE
         /\ outcome[p].value.message = frame[p].errors[retries].message
C3_Witness ==
  \E p, q \in Callers :
    /\ pc[p] = "idle" /\ Len(frame[p].errors) = retries
    /\ frame[p].errors[1] # frame[p].errors[retries]
    /\ outcome[p].value.message = frame[p].errors[retries].message
    /\ pc[q] = "idle" /\ Len(frame[q].errors) = 1
    /\ outcome[q].kind = "returned" /\ outcome[q].value.success

(* C4: onModuleDestroy calls terminate on every worker of the pool, and    *)
(* when it resolves the pool is empty; over any number of calls in         *)
(* succession no worker is terminated twice.                               *)
C4_Shutdown ==
  [][/\ (~destroying /\ destroying') =>
          \A k \in 1..Len(workerPool) :
            terminated'[workerPool[k]] = terminated[workerPool[k]] + 1
     /\ (destroying /\ ~destroying') => workerPool' = <<>>
     /\ \A w \in WorkerIds : terminated'[w] <= 1]_vars
C4_Witness ==
  /\ destroys = MaxDestroys /\ ~destroying
  /\ workerPool = <<>>
  /\ Cardinality({w \in WorkerIds : terminated[w] = 1}) = MAX_WORKERS

(* C5: as long as no getWorker call has started while another one was      *)
(* creating a worker, the pool holds at most MAX_WORKERS workers and a     *)
(* worker is added only to a pool of fewer; getWorker starts a creation    *)
(* only when the pool is below MAX_WORKERS, and otherwise returns a        *)
(* worker of the pool and leaves the pool as it is.                        *)
C5_Capacity ==
  [][/\ ~overlapped' => Len(workerPool') <= MAX_WORKERS
     /\ \A p \in Callers :
          /\ (pc[p] # "createWorker" /\ pc'[p] = "createWorker") =>
               Len(workerPool) < MAX_WORKERS
          /\ (pc[p] = "setParameters" /\ pc'[p] = "recognize") =>
               /\ workerPool' = Append(workerPool, frame[p].worker)
               /\ ~overlapped => Len(workerPool) < MAX_WORKERS
          /\ (pc[p] \in {"idle", "backoff"} /\ pc'[p] = "recognize") =>
               /\ Len(workerPool) >= MAX_WORKERS
               /\ frame'[p].pooled
               /\ \E k \in 1..Len(workerPool) : frame'[p].worker = workerPool[k]
               /\ workerPool' = workerPool]_vars
C5_Witness ==
  /\ ~overlapped
  /\ Len(workerPool) = MAX_WORKERS
  /\ \E p \in Callers :
       /\ pc[p] = "recognize" /\ frame[p].pooled
       /\ \E k \in 1..Len(workerPool) : frame[p].worker = workerPool[k]

(* C6, as the claim states it: once no getWorker call is in flight any     *)
(* more, the pool holds at most MAX_WORKERS workers again (there is no     *)
(* shutdown in Spec).                                                      *)
C6_Transient ==
  (\A p \in Callers : pc[p] \notin {"createWorker", "setParameters"}) =>
    Len(workerPool) <= MAX_WORKERS

(* C7, as the claim states it: in a response with success = true every     *)
(* value of data under title, reference, description, quantity, price or   *)
(* notes passes validateFieldValue, the sentinel title excepted.           *)
C7_Validated ==
  doc.stage = "done" =>
    \A f \in DOMAIN doc.outcome.value.data
               \cap {"title", "reference", "description", "quantity", "price", "notes"} :
      \/ (f = "title" /\ doc.outcome.value.data[f].value = Sentinel)
      \/ validateFieldValue(f, doc.outcome.value.data[f].value)

(* C8: the output of structureRecognizedData and the data of the response  *)
(* have the key title; where the direct match, the catalog's title         *)
(* patterns and the fallback all find no title, the title is the sentinel  *)
(* with confidence 0.                                                      *)
C8_Title ==
  doc.stage = "done" =>
    /\ "title" \in DOMAIN doc.structuredData
    /\ "title" \in DOMAIN doc.outcome.value.data
    /\ (/\ titleMatch(doc.correctedText).s = 0
        /\ Candidates(fieldConfigs, "title", doc.correctedText, 1) = <<>>
        /\ Fallback("title", doc.correctedText).s = 0) =>
         doc.structuredData["title"] = [value |-> Sentinel, confidence |-> 0]
C8_Witness ==
  /\ doc.stage = "done"
  /\ doc.correctedText # <<>>
  /\ titleMatch(doc.correctedText).s = 0
  /\ Candidates(fieldConfigs, "title", doc.correctedText, 1) = <<>>
  /\ Fallback("title", doc.correctedText).s = 0
  /\ doc.structuredData["title"] = [value |-> Sentinel, confidence |-> 0]
  /\ doc.outcome.value.data["title"].value = Sentinel

(* C9: the confidence of a response and the confidence of every field of   *)
(* its data are between 0 and 100.                                         *)
C9_Confidence ==
  doc.stage = "done" =>
    /\ doc.outcome.value.confidence \in 0..100
    /\ \A f \in DOMAIN doc.outcome.value.data :
         doc.outcome.value.data[f].confidence \in 0..100
    /\ \A f \in DOMAIN doc.structuredData : doc.structuredData[f].confidence \in 0..100
C9_Witness ==
  /\ doc.stage = "done"
  /\ \E k \in 1..Len(doc.recognizedFields) :
       LET field == doc.recognizedFields[k]
       IN /\ field.confidence = 100
          /\ SumBoosts(field.patterns, Len(field.patterns)) > 0
          /\ \E j \in 1..Len(field.patterns) : field.patterns[j].matched
          /\ field.fieldName \in DOMAIN doc.outcome.value.data
          /\ doc.outcome.value.data[field.fieldName].confidence = 100

(* C10, as the claim states it: a reference in data is PROD-2024-789 in    *)
(* upper case whatever the letter case of the text, and the text           *)
(* "reference : PROD-2024-789" yields that reference with a confidence     *)
(* above 0.                                                                *)
C10_Reference ==
  doc.stage = "done" =>
    /\ "reference" \in DOMAIN doc.outcome.value.data =>
         doc.outcome.value.data["reference"].value = <<"PROD-2024-789">>
    /\ doc.correctedText = <<"reference", ":", "PROD-2024-789">> =>
         /\ "reference" \in DOMAIN doc.outcome.value.data
         /\ doc.outcome.value.data["reference"].value = <<"PROD-2024-789">>
         /\ doc.outcome.value.data["reference"].confidence > 0

(* C11: the quantity validator accepts a value exactly when all its        *)
(* characters are digits and the number they write is above 0 and at most  *)
(* 1000000: it rejects "0", a negative number, a value with a letter and   *)
(* 1000001, and accepts "1" and "1000000".                                 *)
C11_Quantity ==
  doc.stage = "validateFieldValue" =>
    LET value == doc.value
        \* the number the digits write, by place value
        n == LET Place[k \in 0..Len(value)] ==
                   IF k = 0 THEN 0
                   ELSE Place[k - 1] * 10 + (IF value[k] = "1" THEN 1 ELSE 0)
             IN Place[Len(value)]
    IN /\ doc.returned =
            (/\ value # <<>>
             /\ \A k \in 1..Len(value) : value[k] \in {"0", "1"}
             /\ 0 < n /\ n <= 1000000)
       /\ value \in {<<"0">>, <<"-", "1">>, <<"a">>, <<"1", "a">>,
                      <<"1", "0", "0", "0", "0", "0", "1">>, <<>>} => ~doc.returned
       /\ value \in {<<"1">>, <<"1", "0", "0", "0", "0", "0", "0">>} => doc.returned
C11_Witness ==
  /\ doc.stage = "validateFieldValue"
  /\ doc.value = <<"1", "0", "0", "0", "0", "0", "0">>
  /\ doc.returned

(* C12: calculateConfidence returns the weighted average of the            *)
(* confidences, in percent, rounded to the nearest integer, over the       *)
(* results whose field has a weight: results of fields without weight      *)
(* change nothing, the result is 0 when no result has a weight, and        *)
(* weights 0.2 and 0.8 with confidences 1.0 and 0.5 give 60.               *)
C12_WeightedAverage ==
  doc.stage = "calculateConfidence" =>
    LET rs == doc.recognizedFields
        weighted == {k \in 1..Len(rs) : doc.weights[rs[k].fieldName] # 0}
        Num[k \in 0..Len(rs)] ==
          IF k = 0 THEN 0
          ELSE Num[k - 1] + (IF k \in weighted
                             THEN rs[k].confidence * doc.weights[rs[k].fieldName] ELSE 0)
        Den[k \in 0..Len(rs)] ==
          IF k = 0 THEN 0
          ELSE Den[k - 1] + (IF k \in weighted THEN doc.weights[rs[k].fieldName] ELSE 0)
        num == Num[Len(rs)]
        den == Den[Len(rs)]
    IN /\ weighted = {} => doc.returned = 0
       \* returned - 1/2 <= num / den < returned + 1/2
       /\ weighted # {} =>
            /\ (2 * doc.returned - 1) * den <= 2 * num
            /\ 2 * num < (2 * doc.returned + 1) * den
       /\ (/\ doc.weights["title"] = 20 /\ doc.weights["description"] = 80
           /\ rs = <<[fieldName |-> "title", confidence |-> 100],
                     [fieldName |-> "description", confidence |-> 50]>>) =>
            doc.returned = 60
C12_Witness ==
  /\ doc.stage = "calculateConfidence"
  /\ doc.weights["title"] = 20 /\ doc.weights["description"] = 80
  /\ doc.weights["reference"] = 0
  /\ doc.recognizedFields = <<[fieldName |-> "title", confidence |-> 100],
                              [fieldName |-> "reference", confidence |-> 0],
                              [fieldName |-> "description", confidence |-> 50]>>
  /\ doc.returned = 60

(* C13, as the claim states it: whatever calls have been processed, the    *)
(* pattern list of every field of the catalog is in the order of its       *)
(* initial value.                                                          *)
C13_ReadOnly == fieldConfigs = InitialPatterns

(* C14, as the claim states it: the response to a text and a debug flag is *)
(* the response a service that has processed nothing gives to them,        *)
(* whatever was processed before.                                          *)
C14_Stateless ==
  doc.stage = "done" =>
    doc.outcome = Response(Pipeline(InitialPatterns, doc.ocrText), doc.ocrText, doc.debug)

(* C15: preprocessText is idempotent: applied to what it has returned, it  *)
(* returns the same text.                                                  *)
C15_Idempotent ==
  doc.stage = "preprocessText" => doc.again = doc.returned
C15_Witness ==
  /\ doc.stage = "preprocessText"
  /\ doc.text = <<"a", "\r", "\n", "\t", "a">>
  /\ doc.returned = <<"a", " ", "a">>
  /\ doc.again = doc.returned

(* C16: the text correctFieldNames returns does not depend on the order in *)
(* which the synonyms are scanned and their matches collected.             *)
C16_Confluent ==
  doc.stage = "correctFieldNames" => doc.scanned.correctedText = doc.returned.correctedText
C16_Witness ==
  /\ doc.stage = "correctFieldNames"
  /\ doc.text = Chars("Prix") \o <<" ">> \o Chars("titre")
  /\ doc.scan = <<"prix", "quantité", "ref", "titre">>
  /\ doc.scanned.correctedText = Chars("price") \o <<" ">> \o Chars("designation")
  /\ doc.returned.correctedText = doc.scanned.correctedText

(* C19: correctFieldNames returns the text with every match of a synonym   *)
(* between word boundaries replaced by the name the map gives it, as if    *)
(* all were replaced at once: what lies outside the matches is unchanged,  *)
(* and the log has one entry for each match.                               *)
C19_Simultaneous ==
  doc.stage = "correctFieldNames" =>
    LET text == doc.text
        MatchAt(i) == {key \in Range(correctionKeys) : wordMatch(text, key, i)}
        spans == {i \in 1..Len(text) : MatchAt(i) # {}}
        \* the text from character i on, every match replaced
        Out[i \in 1..(Len(text) + 1)] ==
          IF i > Len(text) THEN <<>>
          ELSE IF i \in spans
               THEN LET key == CHOOSE key \in MatchAt(i) : TRUE
                    IN Chars(correctionMap(key)) \o Out[i + Len(Chars(key))]
          ELSE <<text[i]>> \o Out[i + 1]
        log == doc.returned.corrections
    IN /\ doc.returned.correctedText = Out[1]
       /\ Len(log) = Cardinality(spans)
       /\ \A k \in 1..Len(log) :
            \E i \in spans, key \in Range(correctionKeys) :
              /\ key \in MatchAt(i)
              /\ log[k].original = SubSeq(text, i, i + Len(Chars(key)) - 1)
              /\ log[k].corrected = correctionMap(key)
C19_Witness ==
  /\ doc.stage = "correctFieldNames"
  /\ doc.text = Chars("ref") \o <<":">> \o Chars("Prix")
  /\ doc.returned.correctedText = Chars("reference") \o <<":">> \o Chars("price")
  /\ Len(doc.returned.corrections) = 2

(* C20, as the claim states it: for every field of the catalog and every   *)
(* synonym in its list, a text that is the synonym, alone or before a      *)
(* colon, is rewritten to the name of that field.                          *)
C20_Synonyms ==
  doc.stage = "correctFieldNames" =>
    \A k \in 1..Len(FieldNames) :
      \A j \in 1..Len(synonyms[FieldNames[k]]) :
        LET synonym == Chars(synonyms[FieldNames[k]][j])
            name == Chars(FieldNames[k])
        IN /\ doc.text = synonym => doc.returned.correctedText = name
           /\ doc.text = synonym \o <<":">> => doc.returned.correctedText = name \o <<":">>

C21_Recognition ==
  doc.stage = "done" =>
    LET text == doc.correctedText
        results == doc.recognizedFields
        synonymFound(f) == \E k \in 1..Len(text) : Words(text[k]) \cap Range(synonyms[f]) # {}
        matching(f) == {p \in Range(InitialPatterns[f]) : exec(f, p, text).s # 0}
        boosted(f) ==
          {p \in matching(f) :
             /\ matchedKey(text, exec(f, p, text)) # <<>>
             /\ Includes(exampleKey[f][p], matchedKey(text, exec(f, p, text)))}
        sum(f) == (IF synonymFound(f) THEN 40 ELSE 0)
                    + (IF matching(f) # {} THEN 60 ELSE 0)
                    + 30 * Cardinality(boosted(f))
    IN /\ Len(results) = Len(FieldNames)
       /\ \A f \in Range(FieldNames) :
            Cardinality({k \in 1..Len(results) : results[k].fieldName = f}) = 1
       /\ \A k \in 1..(Len(results) - 1) : results[k].confidence >= results[k + 1].confidence
       /\ \A k \in 1..Len(results) :
            /\ results[k].confidence =
                 IF sum(results[k].fieldName) < 100 THEN sum(results[k].fieldName) ELSE 100
            /\ results[k].confidence \in 0..100
\* a text where a later field of the catalog is recognized better than an earlier one,
\* one field above 1 before the minimum and one with a pattern and a boost alone
C21_Witness ==
  /\ doc.stage = "done"
  /\ \E j, k \in 1..Len(FieldNames) :
       /\ j < k
       /\ \E a, b \in 1..Len(doc.recognizedFields) :
            /\ a < b
            /\ doc.recognizedFields[a].fieldName = FieldNames[k]
            /\ doc.recognizedFields[b].fieldName = FieldNames[j]
  /\ \E k \in 1..Len(doc.recognizedFields) :
       /\ doc.recognizedFields[k].confidence = 100
       /\ SumBoosts(doc.recognizedFields[k].patterns, Len(doc.recognizedFields[k].patterns)) = 30
       /\ \E i \in 1..Len(doc.correctedText) :
            Words(doc.correctedText[i])
              \cap Range(synonyms[doc.recognizedFields[k].fieldName]) # {}
  /\ \E k \in 1..Len(doc.recognizedFields) : doc.recognizedFields[k].confidence = 90

(* C22: in structureRecognizedData the patterns of a field are tried from  *)
(* the highest priority down.  A field none of whose patterns yields a     *)
(* validated candidate is not stored by the loops; for reference, price    *)
(* and quantity the value stored is the candidate of the pattern of the    *)
(* highest priority that yields one; for the other fields it is a longest  *)
(* candidate, and among the longest the one collected first.               *)
C22_Priority ==
  doc.stage = "done" =>
    LET text == doc.correctedText
        candidate(f, p) == Candidate(fieldConfigs, f, p, exec(f, p, text))
        yielding(f) == {p \in Range(InitialPatterns[f]) : candidate(f, p) # <<>>}
        highest(f) == CHOOSE p \in yielding(f) : \A q \in yielding(f) : q <= p
        longest(f) ==
          CHOOSE p \in yielding(f) :
            \A q \in yielding(f) :
              \/ StrLen(candidate(f, q)[1]) < StrLen(candidate(f, p)[1])
              \/ StrLen(candidate(f, q)[1]) = StrLen(candidate(f, p)[1]) /\ q <= p
    IN \A f \in Range(FieldNames) :
         (f = "title" => titleMatch(text).s = 0) =>
           /\ yielding(f) = {} => f \notin DOMAIN doc.extracted
           /\ yielding(f) # {} =>
                /\ f \in DOMAIN doc.extracted
                /\ doc.extracted[f].value =
                     IF f \in {"reference", "price", "quantity"}
                     THEN candidate(f, highest(f))[1]
                     ELSE candidate(f, longest(f))[1]
\* both reference patterns yield a candidate, in different letter cases, and the one of
\* pattern 2 is stored; the candidates are those of the text "Référence prod-2024-789"
C22_Witness ==
  /\ doc.stage = "done"
  /\ LET first == Candidate(fieldConfigs, "reference", 1, exec("reference", 1, doc.correctedText))
         second == Candidate(fieldConfigs, "reference", 2, exec("reference", 2, doc.correctedText))
     IN /\ first = <<<<"PROD-2024-789">>>>
        /\ second = <<<<"prod-2024-789">>>>
        /\ doc.extracted["reference"].value = second[1]

(* C23: postProcessFields keeps every field that data holds with a value,  *)
(* with its confidence; a field it inserts, new or in the place of one     *)
(* with an empty value, is one of title, description, reference, price,    *)
(* quantity and notes and has the confidence 95, 100, 60, 85, 80 or 60 of  *)
(* its fallback; a field with an empty value for which no fallback matches *)
(* stays as it is.  This holds for the call in structureRecognizedData and *)
(* for the call in processDocument.                                        *)
C23_Fallback ==
  doc.stage = "done" =>
    LET fixed == [title |-> 95, description |-> 100, reference |-> 60, price |-> 85,
                  quantity |-> 80, notes |-> 60]
        kept(before, after) ==
          \A f \in DOMAIN before :
            before[f].value # <<>> =>
              f \in DOMAIN after /\ after[f].confidence = before[f].confidence
        added(before, after) ==
          \A f \in DOMAIN after :
            (f \notin DOMAIN before \/ (before[f].value = <<>> /\ after[f] # before[f])) =>
              f \in DOMAIN fixed /\ after[f].confidence = fixed[f]
    IN /\ kept(doc.extracted, doc.postProcessed)
       /\ added(doc.extracted, doc.postProcessed)
       /\ kept(doc.structuredData, doc.outcome.value.data)
       /\ added(doc.structuredData, doc.outcome.value.data)
\* the loops have stored a title and no price; postProcessFields keeps the title with
\* its confidence and adds the price with the confidence 85 of its fallback
C23_Witness ==
  /\ doc.stage = "done"
  /\ "title" \in DOMAIN doc.extracted
  /\ doc.extracted["title"].value # <<>>
  /\ doc.extracted["title"].confidence = 60
  /\ doc.postProcessed["title"].confidence = 60
  /\ "price" \notin DOMAIN doc.extracted
  /\ "price" \in DOMAIN doc.postProcessed
  /\ doc.postProcessed["price"] = [value |-> <<"89.99">>, confidence |-> 85]

(* C24: in extractTextWithRetry every failed attempt is followed by a      *)
(* backoff, of 500 ms times k after the k-th failed attempt, the last      *)
(* attempt included: the failure is propagated only after the backoff of   *)
(* 500 ms times retries.  Every attempt calls getWorker anew, and an       *)
(* attempt that fails to obtain a worker is a failed attempt like one      *)
(* whose recognize fails.                                                  *)
C24_Backoff ==
  \A p \in Callers :
    LET fr == frame[p]
    IN /\ fr.backoffs = Len(fr.errors)
       /\ fr.getWorkers <= retries /\ fr.recognizes <= fr.getWorkers
       /\ pc[p] = "backoff" =>
            /\ fr.delay = 500 * Len(fr.errors)
            /\ fr.getWorkers = Len(fr.errors)
       /\ pc[p] \in {"createWorker", "setParameters", "recognize"} =>
            fr.getWorkers = Len(fr.errors) + 1
       /\ fr.thrown \in EngineErrors =>
            /\ Len(fr.errors) = retries
            /\ fr.getWorkers = retries
            /\ fr.delay = 500 * retries
            /\ fr.thrown = fr.errors[retries]
\* a call whose attempts have all failed, one of them before recognize was called
C24_Witness ==
  \E p \in Callers :
    /\ pc[p] = "idle"
    /\ frame[p].thrown \in EngineErrors
    /\ outcome[p] = catch(frame[p].thrown)
    /\ frame[p].backoffs = retries
    /\ frame[p].delay = 500 * retries
    /\ frame[p].recognizes < frame[p].getWorkers

(* C25, as the claim states it: when onModuleDestroy has run while a       *)
(* processDocument call was in flight and no call has started since, then  *)
(* once the shutdown and the call have finished the pool is empty and      *)
(* every worker that was created has been terminated.                      *)
C25_Drained ==
  (/\ calls = 1
   /\ \E p \in Callers : frame[p].shutdowns >= 1
   /\ \A p \in Callers : pc[p] = "idle"
   /\ ~destroying) =>
    /\ workerPool = <<>>
    /\ \A w \in 1..created : terminated[w] >= 1

(* C26, as the claim states it: when extractStructuredData calls overlap   *)
(* on the one parser, a call that returns has received the data of its own *)
(* buffer and returns the pages of that data, and a pdfParser_dataReady    *)
(* event completes exactly one pending call.                               *)
C26_OwnPages ==
  /\ \A c \in Callers :
       (parser.calls[c].pc = "settled" /\ parser.calls[c].outcome.kind = "returned") =>
         /\ parser.calls[c].pdfData = pdfDataOf(parser.calls[c].buffer)
         /\ parser.calls[c].outcome.value.pages[1].preview
              = processPdfData(pdfDataOf(parser.calls[c].buffer)).text
  /\ parser.event.kind = "pdfParser_dataReady" => Cardinality(parser.event.completed) = 1

(* C27, as the claim states it: a call whose buffer has the %PDF signature *)
(* and was handed to the parser settles in the end, also when the parser   *)
(* emits pdfParser_dataError for it; and no listener is registered for a   *)
(* call that has settled.                                                  *)
C27_Settles ==
  /\ \A c \in Callers :
       (parser.calls[c].pc = "parsing") ~> (parser.calls[c].pc = "settled")
  /\ [](\A c \in Callers :
          Cardinality({k \in 1..Len(parser.listeners) : parser.listeners[k] = c})
            <= IF parser.calls[c].pc = "parsing" THEN 1 ELSE 0)


(* C28: the result of processDocument does not depend on the confidence    *)
(* the engine reports.  Two calls whose engine output has the same text    *)
(* and the same debug flag return the same response, data, corrections and *)
(* overall confidence, whatever confidences the engine reported; and the   *)
(* overall confidence of the engine's text is 13 under either.            *)
C28_Independent ==
  /\ \A p, q \in Callers :
       (/\ outcome[p].kind = "returned" /\ outcome[p].value.success
        /\ outcome[q].kind = "returned" /\ outcome[q].value.success
        /\ frame[p].debug = frame[q].debug)
         => outcome[p].value = outcome[q].value
  /\ \A p \in Callers :
       (outcome[p].kind = "returned" /\ outcome[p].value.success) =>
         /\ outcome[p].value.confidence = 13
         /\ frame[p].confidence \in EngineConfidences
\* two calls have returned, the engine having reported 42 to one and 87 to the other
C28_Witness ==
  \E p, q \in Callers :
    /\ outcome[p].kind = "returned" /\ outcome[p].value.success
    /\ outcome[q].kind = "returned" /\ outcome[q].value.success
    /\ frame[p].debug = frame[q].debug
    /\ frame[p].confidence = 42 /\ frame[q].confidence = 87
    /\ lastConfidence \in {42, 87}
(* C29: the recognizer runs on the corrected text, and for title,          *)
(* reference, quantity, price and notes no word of the corrected text is a *)
(* whole-word synonym of the field, so that the recognition confidence of  *)
(* the field is made of the pattern part (60) and the boosts only, never   *)
(* of the synonym part (40), for every text.                               *)
C29_NoSynonymPart ==
  doc.stage = "done" =>
    \A k \in 1..Len(doc.recognizedFields) :
      LET r == doc.recognizedFields[k]
      IN r.fieldName \in {"title", "reference", "quantity", "price", "notes"} =>
           /\ \A j \in 1..Len(doc.correctedText) :
                Words(doc.correctedText[j]) \cap Range(synonyms[r.fieldName]) = {}
           /\ r.confidence
                = Clamp((IF \E j \in 1..Len(r.patterns) : r.patterns[j].matched
                         THEN 60 ELSE 0) + SumBoosts(r.patterns, Len(r.patterns)))
(* a text with the synonym "prix" of price and a price: the word has been  *)
(* rewritten to "price", and price is recognised by its pattern alone      *)
C29_Witness ==
  /\ doc.stage = "done"
  /\ \E j \in 1..Len(doc.ocrText) : doc.ocrText[j] = "prix"
  /\ \E j \in 1..Len(doc.correctedText) : doc.correctedText[j] = "price"
  /\ \A j \in 1..Len(doc.correctedText) : doc.correctedText[j] # "prix"
  /\ \E k \in 1..Len(doc.recognizedFields) :
       /\ doc.recognizedFields[k].fieldName = "price"
       /\ doc.recognizedFields[k].confidence \in {60, 90}
(* C30: under any interleaving of save calls that reference the same       *)
(* existing article, quantityInStock never becomes negative, and a save    *)
(* that asks for more than the stock available when its decrement runs is  *)
(* rejected with 'Stock insuffisant' and leaves the stock unchanged.       *)
C30_Stock ==
  /\ inventory.quantityInStock >= 0
  /\ \A s \in Callers :
       (inventory.saves[s].available >= 0
          /\ inventory.saves[s].quantity > inventory.saves[s].available)
         => /\ inventory.saves[s].outcome = [kind |-> "thrown", value |-> "Stock insuffisant"]
            /\ inventory.quantityInStock >= inventory.saves[s].available
====
